---- MODULE Spec2Model ----
(***************************************************************************)
(* A model of app.py, the TRMNL Goodreads data server: the pattern         *)
(* extractors, the entry collector, the fusion engine, the challenge       *)
(* extractor and the two time-boxed cache slots.                           *)
(*                                                                         *)
(* Python strings are sequences of one-character strings, so that the      *)
(* regular expressions of the source are matched character by character.   *)
(***************************************************************************)
EXTENDS Integers, Sequences, FiniteSets, Bags, TLC

(***************************************************************************)
(* Characters and strings                                                  *)
(***************************************************************************)

\* "abc" as the sequence <<"a", "b", "c">>.
Chars(s) == [i \in 1..Len(s) |-> SubSeq(s, i, i)]

\* The two non-ASCII dashes of normalize_book_title's character class.
EnDash == "U+2013"
EmDash == "U+2014"

\* Python's None where a str is expected: no sequence of characters equals it.
NoneStr == <<"None">>

UpperLetters == {"A","B","C","D","E","F","G","H","I","J","K","L","M",
                 "N","O","P","Q","R","S","T","U","V","W","X","Y","Z"}
LowerLetters == {"a","b","c","d","e","f","g","h","i","j","k","l","m",
                 "n","o","p","q","r","s","t","u","v","w","x","y","z"}
DigitChars == {"0","1","2","3","4","5","6","7","8","9"}
\* \s of the re module, within the characters the model uses.
SpaceChars == {" ", "\t", "\n", "\r", "\f"}
\* \w of the re module, within the characters the model uses.
WordChars == UpperLetters \cup LowerLetters \cup DigitChars \cup {"_"}

UpperSeq == Chars("ABCDEFGHIJKLMNOPQRSTUVWXYZ")
LowerSeq == Chars("abcdefghijklmnopqrstuvwxyz")

\* str.lower() on one character.
LowerChar(c) ==
    IF c \in UpperLetters
    THEN LowerSeq[CHOOSE i \in 1..26 : UpperSeq[i] = c]
    ELSE c

\* str.lower()
Lower(s) == [i \in 1..Len(s) |-> LowerChar(s[i])]

\* The least and the greatest element of a non-empty set of integers.
SetMin(S) == CHOOSE m \in S : \A o \in S : m <= o
SetMax(S) == CHOOSE m \in S : \A o \in S : m >= o

\* str.strip(): leading and trailing whitespace removed.
Strip(s) ==
    LET solid == {i \in 1..Len(s) : s[i] \notin SpaceChars}
    IN IF solid = {} THEN <<>> ELSE SubSeq(s, SetMin(solid), SetMax(solid))

\* Code points of the printable ASCII characters, for str comparison:
\* 32..95 and 97..126.
AsciiLowSeq == Chars(" !\"#$%&'()*+,-./0123456789:;<=>?@ABCDEFGHIJKLMNOPQRSTUVWXYZ[\\]^_")
AsciiHighSeq == Chars("abcdefghijklmnopqrstuvwxyz{|}~")

\* ord(c)
Ord(c) ==
    IF c = "\t" THEN 9
    ELSE IF c = "\n" THEN 10
    ELSE IF c = "\f" THEN 12
    ELSE IF c = "\r" THEN 13
    ELSE IF c = EnDash THEN 8211
    ELSE IF c = EmDash THEN 8212
    ELSE IF \E i \in 1..Len(AsciiLowSeq) : AsciiLowSeq[i] = c
         THEN 31 + (CHOOSE i \in 1..Len(AsciiLowSeq) : AsciiLowSeq[i] = c)
         ELSE 96 + (CHOOSE i \in 1..Len(AsciiHighSeq) : AsciiHighSeq[i] = c)

\* a > b for two str values (lexicographic by code point).
StrGreater(a, b) ==
    LET common == IF Len(a) < Len(b) THEN Len(a) ELSE Len(b)
        differ == {i \in 1..common : a[i] # b[i]}
    IN IF differ = {} THEN Len(a) > Len(b)
       ELSE Ord(a[SetMin(differ)]) > Ord(b[SetMin(differ)])

\* int(s) for a string of decimal digits.
DigitSeq == Chars("0123456789")
DigitVal(c) == (CHOOSE i \in 1..10 : DigitSeq[i] = c) - 1

RECURSIVE ParseInt(_)
ParseInt(s) ==
    IF Len(s) = 0 THEN 0
    ELSE 10 * ParseInt(SubSeq(s, 1, Len(s) - 1)) + DigitVal(s[Len(s)])

\* str(n) for n >= 0.
RECURSIVE IntStr(_)
IntStr(n) ==
    IF n < 10 THEN <<DigitSeq[n + 1]>>
    ELSE Append(IntStr(n \div 10), DigitSeq[(n % 10) + 1])

(***************************************************************************)
(* Regular expressions (the re module), for the constructs the source      *)
(* uses: literals, character classes with greedy or lazy repetition,       *)
(* capturing groups, alternation and the anchors ^ and $.  A pattern is a  *)
(* sequence of nodes; matching backtracks in the order re does, so the     *)
(* first match found is the one re.search returns.                         *)
(***************************************************************************)

\* No upper limit on a repetition (*, +).
Unbounded == 1000 * 1000

ClsLit(c)   == [k |-> "lit", c |-> c]
ClsDigit    == [k |-> "digit"]
ClsSpace    == [k |-> "space"]
ClsDot      == [k |-> "dot"]
ClsIn(S)    == [k |-> "in", set |-> S]
ClsNotIn(S) == [k |-> "notin", set |-> S]
\* [^\w\s]
ClsNotWordSpace == [k |-> "notwordspace"]

InClass(cls, c, ic) ==
    CASE cls.k = "lit"   -> IF ic THEN LowerChar(c) = LowerChar(cls.c) ELSE c = cls.c
      [] cls.k = "digit" -> c \in DigitChars
      [] cls.k = "space" -> c \in SpaceChars
      [] cls.k = "dot"   -> c # "\n"
      [] cls.k = "in"    -> c \in cls.set
      [] cls.k = "notin" -> c \notin cls.set
      [] cls.k = "notwordspace" -> c \notin WordChars /\ c \notin SpaceChars

\* Pattern constructors; patterns are concatenated with \o.
Rep(cls, lo, hi, greedy) ==
    <<[t |-> "rep", cls |-> cls, min |-> lo, max |-> hi, greedy |-> greedy]>>
One(cls)      == Rep(cls, 1, 1, TRUE)
Plus(cls)     == Rep(cls, 1, Unbounded, TRUE)
Star(cls)     == Rep(cls, 0, Unbounded, TRUE)
Opt(cls)      == Rep(cls, 0, 1, TRUE)
LazyPlus(cls) == Rep(cls, 1, Unbounded, FALSE)
LazyStar(cls) == Rep(cls, 0, Unbounded, FALSE)
Lit(str)      == <<[t |-> "lit", str |-> Chars(str)]>>
Grp(g, p)     == <<[t |-> "open", g |-> g]>> \o p \o <<[t |-> "close", g |-> g]>>
Alt(ps)       == <<[t |-> "alt", alts |-> ps]>>
Eos           == <<[t |-> "eos"]>>
Bos           == <<[t |-> "bos"]>>
Digits        == Plus(ClsDigit)
Spaces0       == Star(ClsSpace)
Spaces1       == Plus(ClsSpace)

NoMatch == [ok |-> FALSE]

\* How many characters from position i on are in cls, at most hi.
RunLen(cls, s, i, hi, ic) ==
    LET stop == {j \in i..Len(s) : ~InClass(cls, s[j], ic)}
        run == IF stop = {} THEN Len(s) - i + 1 ELSE SetMin(stop) - i
    IN IF run < hi THEN run ELSE hi

LitAt(str, s, i, ic) ==
    /\ i + Len(str) - 1 <= Len(s)
    /\ \A k \in 1..Len(str) :
          IF ic THEN LowerChar(s[i + k - 1]) = LowerChar(str[k])
          ELSE s[i + k - 1] = str[k]

RECURSIVE MatchSeq(_, _, _, _, _)
RECURSIVE TryAlt(_, _, _, _, _, _, _)

\* A repetition takes the most characters (greedy) or the fewest (lazy) with
\* which the rest of the pattern matches; counts are the numbers of
\* characters with which it does.
MatchRep(n, rest, s, i, caps, ic, counts) ==
    IF counts = {} THEN NoMatch
    ELSE MatchSeq(rest, s,
                  i + (IF n.greedy THEN SetMax(counts) ELSE SetMin(counts)),
                  caps, ic)

\* The match r when it succeeded, else the match other.
OrElse(r, other) == IF r.ok THEN r ELSE other

\* The alternatives of a group, left to right.
TryAlt(alts, k, rest, s, i, caps, ic) ==
    IF k > Len(alts) THEN NoMatch
    ELSE OrElse(MatchSeq(alts[k] \o rest, s, i, caps, ic),
                TryAlt(alts, k + 1, rest, s, i, caps, ic))

\* Node n, then the nodes of rest, at position i.
MatchNode(n, rest, s, i, caps, ic) ==
    CASE n.t = "lit" ->
           IF LitAt(n.str, s, i, ic)
           THEN MatchSeq(rest, s, i + Len(n.str), caps, ic)
           ELSE NoMatch
      [] n.t = "rep" ->
           MatchRep(n, rest, s, i, caps, ic,
                    {c \in n.min..RunLen(n.cls, s, i, n.max, ic) :
                        MatchSeq(rest, s, i + c, caps, ic).ok})
      [] n.t = "open" ->
           MatchSeq(rest, s, i, [caps EXCEPT ![n.g] = <<i, i>>], ic)
      [] n.t = "close" ->
           MatchSeq(rest, s, i, [caps EXCEPT ![n.g] = <<@[1], i>>], ic)
      [] n.t = "alt" -> TryAlt(n.alts, 1, rest, s, i, caps, ic)
      [] n.t = "eos" ->
           IF i = Len(s) + 1 \/ (i = Len(s) /\ s[i] = "\n")
           THEN MatchSeq(rest, s, i, caps, ic)
           ELSE NoMatch
      [] n.t = "bos" ->
           IF i = 1 THEN MatchSeq(rest, s, i, caps, ic) ELSE NoMatch

\* The first way (in re's backtracking order) to match nodes at position i.
MatchSeq(nodes, s, i, caps, ic) ==
    IF Len(nodes) = 0 THEN [ok |-> TRUE, end |-> i, caps |-> caps]
    ELSE MatchNode(Head(nodes), Tail(nodes), s, i, caps, ic)

\* The match that starts at position first, as a match object.
MatchAt(matches, first, ngroups) ==
    [ok |-> TRUE, start |-> first, end |-> matches[first].end,
     caps |-> matches[first].caps, ngroups |-> ngroups]

\* The leftmost of the matches tried at the positions of DOMAIN matches.
FirstMatch(matches, ngroups) ==
    IF \A j \in DOMAIN matches : ~matches[j].ok THEN NoMatch
    ELSE MatchAt(matches, SetMin({j \in DOMAIN matches : matches[j].ok}), ngroups)

\* re.search(pattern, s) from position i on: the leftmost match.
\* ngroups is the number of capturing groups of the pattern.
SearchFrom(pat, ngroups, s, i, ic) ==
    FirstMatch([j \in i..(Len(s) + 1) |->
                   MatchSeq(pat, s, j, [g \in 1..ngroups |-> <<0, 0>>], ic)],
               ngroups)

ReSearch(pat, ngroups, s, ic) == SearchFrom(pat, ngroups, s, 1, ic)

\* match.group(g)
Group(m, s, g) == SubSeq(s, m.caps[g][1], m.caps[g][2] - 1)

\* m.group(g) if m else None
GroupOrNone(m, s, g) == IF m.ok THEN Group(m, s, g) ELSE NoneStr

\* v when it is a string, otherwise (for None) the alternative.
FirstFound(v, otherwise) == IF v # NoneStr THEN v ELSE otherwise

\* A table computed once, consulted where it has the key.
Memo(table, key, direct) == IF key \in DOMAIN table THEN table[key] ELSE direct

\* re.sub(pattern, repl, s) for a pattern that matches no empty string.
RECURSIVE SubFrom(_, _, _, _, _)

\* The text from position i up to the match m and the replacement, then the
\* substitution in what follows the match.
SubAfter(pat, repl, s, i, ic, m) ==
    IF ~m.ok THEN SubSeq(s, i, Len(s))
    ELSE SubSeq(s, i, m.start - 1) \o repl \o SubFrom(pat, repl, s, m.end, ic)

SubFrom(pat, repl, s, i, ic) ==
    SubAfter(pat, repl, s, i, ic, SearchFrom(pat, 0, s, i, ic))

ReSub(pat, repl, s, ic) == SubFrom(pat, repl, s, 1, ic)

(***************************************************************************)
(* Python float arithmetic: int((current / total) * 100) is computed in    *)
(* IEEE 754 double precision, each operation rounded to nearest, ties to   *)
(* even.  A significand is a sequence of bits, most significant first; a   *)
(* float is [m |-> significand of FloatPrecision bits, e |-> exponent],    *)
(* its value m[1].m[2]m[3]... * 2^e.                                       *)
(***************************************************************************)

FloatPrecision == 53

RECURSIVE Pow2(_)
Pow2(n) == IF n = 0 THEN 1 ELSE 2 * Pow2(n - 1)

\* The largest j with den * 2^j <= num (num >= den > 0).
RECURSIVE ShiftDown(_, _)
ShiftDown(num, den) == IF 2 * den <= num THEN 1 + ShiftDown(num, 2 * den) ELSE 0

\* The smallest j with num * 2^j >= den (0 < num).
RECURSIVE ShiftUp(_, _)
ShiftUp(num, den) == IF num >= den THEN 0 ELSE 1 + ShiftUp(2 * num, den)

\* 2^k modulo den, by repeated squaring.
RECURSIVE Pow2Mod(_, _)
Pow2Mod(k, den) ==
    IF k = 0 THEN 1 % den
    ELSE LET half == Pow2Mod(k \div 2, den)
             sq == (half * half) % den
         IN IF k % 2 = 0 THEN sq ELSE (2 * sq) % den

\* What is left of r / den after k bits of its binary expansion (r < den).
RemAfter(r, den, k) == (r * Pow2Mod(k, den)) % den

\* The first n bits of the binary expansion of r / den (r < den).
DivBits(r, den, n) == [k \in 1..n |-> (2 * RemAfter(r, den, k - 1)) \div den]

\* bits + 1, as a sequence one longer when the carry runs out at the top.
IncBits(bits) ==
    LET zeros == {k \in 1..Len(bits) : bits[k] = 0}
        lastZero == SetMax(zeros)
    IN IF zeros = {} THEN <<1>> \o [k \in 1..Len(bits) |-> 0]
       ELSE [k \in 1..Len(bits) |->
               IF k < lastZero THEN bits[k] ELSE IF k = lastZero THEN 1 ELSE 0]

\* Round a significand followed by more bits (and a sticky remainder) to
\* FloatPrecision bits, to nearest, ties to even.
RoundFloat(bits, sticky, e) ==
    LET m == SubSeq(bits, 1, FloatPrecision)
        guard == bits[FloatPrecision + 1]
        below == sticky \/ \E k \in (FloatPrecision + 2)..Len(bits) : bits[k] = 1
        roundUp == guard = 1 /\ (below \/ m[FloatPrecision] = 1)
        inc == IncBits(m)
    IN IF ~roundUp THEN [m |-> m, e |-> e]
       ELSE IF Len(inc) > FloatPrecision
            THEN [m |-> SubSeq(inc, 1, FloatPrecision), e |-> e + 1]
            ELSE [m |-> inc, e |-> e]

\* float(num) / float(den) for integers num, den > 0.
FloatDiv(num, den) ==
    LET shiftDown == IF num >= den THEN ShiftDown(num, den) ELSE 0
        shiftUp == IF num >= den THEN 0 ELSE ShiftUp(num, den)
        scaledNum == num * Pow2(shiftUp)
        scaledDen == den * Pow2(shiftDown)
        first == scaledNum - scaledDen
    IN RoundFloat(<<1>> \o DivBits(first, scaledDen, FloatPrecision),
                  RemAfter(first, scaledDen, FloatPrecision) # 0,
                  shiftDown - shiftUp)

\* Limbs: a significand cut into pieces of LimbBits bits, least significant
\* first, for exact multiplication within the range of the integers.
LimbBits == 8

\* The value of at most LimbBits bits.
RECURSIVE BitsInt(_)
BitsInt(bits) ==
    IF Len(bits) = 0 THEN 0
    ELSE 2 * BitsInt(SubSeq(bits, 1, Len(bits) - 1)) + bits[Len(bits)]

\* Limb j (from 1, least significant first) of a bit sequence.
LimbOf(bits, j) ==
    LET hi == Len(bits) - (j - 1) * LimbBits
        lo == IF hi - LimbBits + 1 < 1 THEN 1 ELSE hi - LimbBits + 1
    IN BitsInt(SubSeq(bits, lo, hi))

\* The carry out of limb j of bits * k.
RECURSIVE MulCarry(_, _, _)
MulCarry(bits, k, j) ==
    IF j = 0 THEN 0
    ELSE (LimbOf(bits, j) * k + MulCarry(bits, k, j - 1)) \div Pow2(LimbBits)

\* bits * k, exactly, for a small integer k: as many bits as bits has, and
\* LimbBits more at the top.
MulBits(bits, k) ==
    LET nlimbs == (Len(bits) + LimbBits - 1) \div LimbBits
        limbs == [j \in 1..(nlimbs + 1) |->
                    IF j > nlimbs THEN MulCarry(bits, k, nlimbs)
                    ELSE (LimbOf(bits, j) * k + MulCarry(bits, k, j - 1))
                         % Pow2(LimbBits)]
        width == Len(bits) + LimbBits
    IN [b \in 1..width |->
          (limbs[(width - b) \div LimbBits + 1]
             \div Pow2((width - b) % LimbBits)) % 2]

\* f * k for a float f and a small integer k > 0.
FloatMulInt(f, k) ==
    LET wide == MulBits(f.m, k)
        lead == SetMin({b \in 1..Len(wide) : wide[b] = 1})
        p == SubSeq(wide, lead, Len(wide))
    IN RoundFloat(Append(p, 0), FALSE, f.e + (Len(p) - FloatPrecision))

\* int(f): truncation, for 0 <= f < 2^31.
FloatInt(f) ==
    IF f.e < 0 THEN 0
    ELSE LET whole == SubSeq(f.m, 1, f.e + 1)
             nlimbs == (Len(whole) + LimbBits - 1) \div LimbBits
         IN LimbOf(whole, 1)
            + (IF nlimbs >= 2 THEN LimbOf(whole, 2) * Pow2(LimbBits) ELSE 0)
            + (IF nlimbs >= 3 THEN LimbOf(whole, 3) * Pow2(2 * LimbBits) ELSE 0)
            + (IF nlimbs >= 4 THEN LimbOf(whole, 4) * Pow2(3 * LimbBits) ELSE 0)

\* int((current / total) * 100), total > 0
PercentOf(current, total) ==
    IF current = 0 THEN 0
    ELSE FloatInt(FloatMulInt(FloatDiv(current, total), 100))

Min(a, b) == IF a < b THEN a ELSE b

(***************************************************************************)
(* Feed entries.  An entry is a record [title, description, author,        *)
(* published]; an attribute the entry does not have is NoneStr.            *)
(***************************************************************************)

HasAttr(v) == v # NoneStr

\* BeautifulSoup(html, "html.parser").get_text(), for markup made of text and
\* well-formed tags without entities: the tags are dropped, the text is kept.
HtmlText(html) == ReSub(Lit("<") \o Star(ClsNotIn({">"})) \o Lit(">"), <<>>, html, FALSE)

Entry(title, description, author, published) ==
    [title |-> Chars(title), description |-> description, author |-> author,
     published |-> published]

(***************************************************************************)
(* The feeds and profile pages the server is run against.                  *)
(***************************************************************************)

Jan06 == Chars("Mon, 06 Jan 2025 10:00:00 -0800")
Jan07 == Chars("Tue, 07 Jan 2025 09:30:00 -0800")

StartedDune == Entry("Jane started reading 'Dune'", NoneStr, NoneStr, Jan06)
PageDune ==
    Entry("Jane is on page 120 of 300 of 'Dune'",
          Chars("<img src=\"https://i.gr-assets.com/dune.jpg\"> ")
          \o Chars("<a href=\"/author/show/58\">Frank Herbert</a>"),
          NoneStr, Jan07)
RatedBook ==
    Entry("Jane rated a book 5 stars", Chars("Jane has read 10 of 5 books"), NoneStr, Jan06)
ChallengeItem ==
    Entry("Jane made progress on her 2025 Reading Challenge",
          Chars("Jane has read 12 of 30 books."), NoneStr, Jan07)

\* What fetching the feed can give: [ok |-> FALSE] when the feed cannot be
\* fetched, otherwise [ok |-> TRUE, entries |-> its entries, newest first].
FeedPool == <<
    [ok |-> FALSE],
    [ok |-> TRUE, entries |-> <<>>],
    [ok |-> TRUE, entries |-> <<RatedBook>>],
    [ok |-> TRUE, entries |-> <<StartedDune>>],
    [ok |-> TRUE, entries |-> <<PageDune, StartedDune>>],
    [ok |-> TRUE, entries |-> <<PageDune, ChallengeItem, StartedDune>>] >>

\* What fetching the profile page can give.
ProfilePool == <<
    [ok |-> FALSE],
    [ok |-> TRUE, html |-> Chars("<div>You have read <b>14</b> of 30 books</div>")],
    [ok |-> TRUE, html |-> Chars("<p>2025 Reading Challenge</p><p>10 of 5 books</p>")] >>

PoolFeedEntries == {FeedPool[f].entries : f \in {g \in DOMAIN FeedPool : FeedPool[g].ok}}
PoolProfileHtml ==
    {ProfilePool[p].html : p \in {q \in DOMAIN ProfilePool : ProfilePool[q].ok}}

(***************************************************************************)
(* extract_progress_from_entry                                             *)
(***************************************************************************)

\* Each pattern with its number of capturing groups.
ProgressTitlePatterns == <<
    [p |-> Grp(1, Digits) \o Lit("%"), n |-> 1],
    [p |-> Lit("is ") \o Grp(1, Digits) \o Lit("% done"), n |-> 1],
    [p |-> Grp(1, Digits) \o Lit(" percent"), n |-> 1],
    [p |-> Lit("page ") \o Grp(1, Digits) \o Lit(" of ") \o Grp(2, Digits), n |-> 2],
    [p |-> Lit("is on page ") \o Grp(1, Digits) \o Lit(" of ") \o Grp(2, Digits), n |-> 2] >>

ProgressDescPatterns == <<
    [p |-> Grp(1, Digits) \o Lit("%") \o Spaces0
           \o Alt(<<Lit("complete"), Lit("done"), Lit("finished"), Lit("read")>>), n |-> 1],
    [p |-> Grp(1, Digits) \o Spaces0 \o Lit("percent"), n |-> 1],
    [p |-> Lit("page") \o Spaces1 \o Grp(1, Digits) \o Spaces1 \o Lit("of")
           \o Spaces1 \o Grp(2, Digits), n |-> 2],
    [p |-> Grp(1, Digits) \o Spaces0 \o Lit("/") \o Spaces0 \o Grp(2, Digits)
           \o Spaces0 \o Lit("pages"), n |-> 2],
    [p |-> Lit("progress") \o Opt(ClsLit(":")) \o Spaces0 \o Grp(1, Digits) \o Lit("%"), n |-> 1] >>

\* No pattern of the list returned.
NoProgress == 0 - 1

\* The loop over one pattern list, from pattern k on: the progress returned,
\* or NoProgress when the loop ends without a return.
RECURSIVE ProgressCascade(_, _, _)

\* The page branch: the percentage when total > 0, else the next pattern.
PageProgress(current, total, next) ==
    IF total > 0 THEN Min(PercentOf(current, total), 100) ELSE next

\* Pattern k with m what re.search gave for it.
ProgressOf(pats, k, text, m) ==
    IF ~m.ok THEN ProgressCascade(pats, k + 1, text)
    ELSE IF pats[k].n = 1
         THEN Min(ParseInt(Group(m, text, 1)), 100)
         ELSE PageProgress(ParseInt(Group(m, text, 1)), ParseInt(Group(m, text, 2)),
                           ProgressCascade(pats, k + 1, text))

ProgressCascade(pats, k, text) ==
    IF k > Len(pats) THEN NoProgress
    ELSE ProgressOf(pats, k, text, ReSearch(pats[k].p, pats[k].n, text, TRUE))

\* The title's patterns first, then the description's, then 0.
FirstProgress(fromTitle, fromDesc) ==
    IF fromTitle # NoProgress THEN fromTitle
    ELSE IF fromDesc # NoProgress THEN fromDesc
    ELSE 0

extract_progress_from_entry(entry) ==
    FirstProgress(ProgressCascade(ProgressTitlePatterns, 1, entry.title),
                  IF HasAttr(entry.description)
                  THEN ProgressCascade(ProgressDescPatterns, 1,
                                       HtmlText(entry.description))
                  ELSE NoProgress)

(***************************************************************************)
(* normalize_book_title                                                    *)
(***************************************************************************)

\* Remove subtitle after colon or dash
SubtitlePattern == One(ClsIn({":", "-", EnDash, EmDash})) \o Star(ClsDot) \o Eos

\* A faulty variant: the text is stripped before the punctuation is removed
\* and the whitespace collapsed, so whitespace uncovered by the removal stays.
normalize_book_title_strip_first(title) ==
    IF title = NoneStr \/ Len(title) = 0 THEN <<>>
    ELSE ReSub(Spaces1, <<" ">>,
           ReSub(One(ClsNotWordSpace), <<>>,
             Strip(ReSub(SubtitlePattern, <<>>, Lower(title), FALSE)),
             FALSE),
           FALSE)

normalize_book_title(title) ==
    IF title = NoneStr \/ Len(title) = 0 THEN <<>>
    ELSE Strip(
           \* Normalize whitespace
           ReSub(Spaces1, <<" ">>,
             \* Remove punctuation
             ReSub(One(ClsNotWordSpace), <<>>,
               \* Remove subtitle after colon or dash
               ReSub(SubtitlePattern, <<>>, Lower(title), FALSE),
               FALSE),
             FALSE))

(***************************************************************************)
(* extract_author_robust                                                   *)
(***************************************************************************)

\* sub in s
Contains(s, sub) == \E i \in 1..(Len(s) - Len(sub) + 1) : LitAt(sub, s, i, FALSE)

\* s[i:].split(sep): the pieces between the occurrences of sep that str.split
\* finds, left to right and without overlap.
RECURSIVE SplitFrom(_, _, _)
SplitFrom(s, sep, i) ==
    LET at == {j \in i..(Len(s) - Len(sep) + 1) : LitAt(sep, s, j, FALSE)}
    IN IF at = {} THEN <<SubSeq(s, i, Len(s))>>
       ELSE <<SubSeq(s, i, SetMin(at) - 1)>> \o SplitFrom(s, sep, SetMin(at) + Len(sep))

Split(s, sep) == SplitFrom(s, sep, 1)

\* <[^>]+>
TagPattern == Lit("<") \o Plus(ClsNotIn({">"})) \o Lit(">")

\* soup.find('a', href=re.compile(r'/author/')).get_text(), for markup whose
\* links are written <a ... href="..." ...>text</a> with no markup inside:
\* the text of the first link whose href contains /author/; NoneStr when the
\* description has no such link.
AuthorLinkPattern ==
    Lit("<a") \o Spaces1 \o Star(ClsNotIn({">"})) \o Lit("href=\"")
    \o Star(ClsNotIn({"\"", ">"})) \o Lit("/author/") \o Star(ClsNotIn({"\"", ">"}))
    \o Lit("\"") \o Star(ClsNotIn({">"})) \o Lit(">")
    \o Grp(1, Star(ClsNotIn({"<"}))) \o Lit("</a>")

AuthorLinkText(html) ==
    GroupOrNone(ReSearch(AuthorLinkPattern, 1, html, FALSE), html, 1)

UnknownAuthor == Chars("Unknown Author")

\* if author_name and len(author_name) > 1 and author_name != 'Unknown Author'
LinkAuthor(link, author_name) ==
    IF link # NoneStr /\ Len(author_name) > 1 /\ author_name # UnknownAuthor
    THEN author_name
    ELSE NoneStr

StrippedLink(link) == LinkAuthor(link, Strip(link))

\* Strategy 1: Look for author links in the HTML description
AuthorStrategy1(entry) ==
    IF ~HasAttr(entry.description) THEN NoneStr
    ELSE StrippedLink(AuthorLinkText(entry.description))

\* The activity phrases removed from the title before the author patterns.
ActivityPhrases ==
    Alt(<< Lit("started reading"), Lit("is currently reading"), Lit("finished reading"),
           Lit("is on page ") \o Digits \o Lit(" of ") \o Digits \o Lit(" of") >>)

AuthorPatterns == <<
    \* '[^']+'\s+by\s+([^(]+?)(?:\s*\(|$)
    Lit("'") \o Plus(ClsNotIn({"'"})) \o Lit("'") \o Spaces1 \o Lit("by") \o Spaces1
      \o Grp(1, LazyPlus(ClsNotIn({"("}))) \o Alt(<<Spaces0 \o Lit("("), Eos>>),
    \* by\s+([^(]+?)(?:\s*\(|$)
    Lit("by") \o Spaces1
      \o Grp(1, LazyPlus(ClsNotIn({"("}))) \o Alt(<<Spaces0 \o Lit("("), Eos>>),
    \* '[^']*'\s*(.+?)(?:\s*started|\s*is|\s*$)
    Lit("'") \o Star(ClsNotIn({"'"})) \o Lit("'") \o Spaces0
      \o Grp(1, LazyPlus(ClsDot))
      \o Alt(<<Spaces0 \o Lit("started"), Spaces0 \o Lit("is"), Spaces0 \o Eos>>) >>

RECURSIVE AuthorFromTitle(_, _)

\* match.group(1).strip(), then the tags removed and the whitespace collapsed.
CleanAuthor(m, title_clean) ==
    ReSub(Spaces1, <<" ">>,
          ReSub(TagPattern, <<>>, Strip(Group(m, title_clean, 1)), FALSE),
          FALSE)

PatternAuthor(title_clean, k, m, author_name) ==
    IF m.ok /\ Len(author_name) > 1 /\ Len(author_name) < 100
    THEN author_name
    ELSE AuthorFromTitle(title_clean, k + 1)

AuthorMatch(title_clean, k, m) ==
    PatternAuthor(title_clean, k, m, CleanAuthor(m, title_clean))

\* The loop over author_patterns, from pattern k on.
AuthorFromTitle(title_clean, k) ==
    IF k > Len(AuthorPatterns) THEN NoneStr
    ELSE AuthorMatch(title_clean, k, ReSearch(AuthorPatterns[k], 1, title_clean, TRUE))

\* Strategy 2: Parse title for "by Author" patterns
AuthorStrategy2(entry) ==
    AuthorFromTitle(ReSub(ActivityPhrases, <<>>, entry.title, TRUE), 1)

\* The author field without tags and without what precedes the activity.
AuthorFieldText(author) ==
    ReSub(Bos \o LazyStar(ClsDot)
          \o Alt(<<Lit("started reading"), Lit("is currently reading")>>),
          <<>>, ReSub(TagPattern, <<>>, author, FALSE), TRUE)

ByAuthor(author_text, author_name) ==
    IF Contains(author_text, Chars(" by "))
       /\ Len(author_name) > 1 /\ Len(author_name) < 100
    THEN author_name
    ELSE NoneStr

\* parts[-1].strip()
LastPart(parts) == Strip(parts[Len(parts)])

AfterBy(author_text) ==
    ByAuthor(author_text, LastPart(Split(author_text, Chars(" by "))))

\* Strategy 3: Check the author field directly
AuthorStrategy3(entry) ==
    IF ~HasAttr(entry.author) THEN NoneStr
    ELSE AfterBy(AuthorFieldText(entry.author))

\* The name found, or NoneStr.
extract_author_robust(entry) ==
    FirstFound(AuthorStrategy1(entry),
               FirstFound(AuthorStrategy2(entry), AuthorStrategy3(entry)))

(***************************************************************************)
(* find_all_book_entries                                                   *)
(***************************************************************************)

\* '([^']+)'
QuotedTitle == Lit("'") \o Grp(1, Plus(ClsNotIn({"'"}))) \o Lit("'")

\* (?:is on page \d+ of \d+ of|is currently reading|updated (?:her|his)
\*    progress on|% done with)\s*(.+?)(?:\s*by|\s*$)
VerbTitle ==
    Alt(<< Lit("is on page ") \o Digits \o Lit(" of ") \o Digits \o Lit(" of"),
           Lit("is currently reading"),
           Lit("updated ") \o Alt(<<Lit("her"), Lit("his")>>) \o Lit(" progress on"),
           Lit("% done with") >>)
    \o Spaces0 \o Grp(1, LazyPlus(ClsDot))
    \o Alt(<<Spaces0 \o Lit("by"), Spaces0 \o Eos>>)

ProgressPhrases ==
    {Chars("is on page"), Chars("is currently reading"),
     Chars("updated her progress"), Chars("% done")}

\* The classification of one entry: [book_title, progress, type], with
\* book_title NoneStr when none was extracted.  quoted: the search for
\* '([^']+)' in the title; quotedIc: the same, ignoring case; verb: the
\* search for the verb pattern; progress: extract_progress_from_entry(entry).
Classified(entry, title_lower, quoted, quotedIc, verb, progress) ==
    LET unknown == [book_title |-> NoneStr, progress |-> 0, type |-> "unknown"]
        book_title ==
            IF quotedIc.ok THEN Strip(Group(quotedIc, entry.title, 1))
            ELSE IF verb.ok THEN Strip(Group(verb, entry.title, 1))
            ELSE NoneStr
    IN IF Contains(title_lower, Chars("started reading"))
       THEN IF quoted.ok
            THEN [book_title |-> Group(quoted, entry.title, 1), progress |-> 0,
                  type |-> "started"]
            ELSE unknown
       ELSE IF \E phrase \in ProgressPhrases : Contains(title_lower, phrase)
       THEN IF book_title # NoneStr /\ Len(book_title) > 0
            THEN [book_title |-> book_title,
                  progress |-> progress,
                  type |-> "progress_update"]
            ELSE [unknown EXCEPT !.book_title = book_title]
       ELSE IF Contains(title_lower, Chars("currently reading"))
       THEN IF quoted.ok
            THEN [book_title |-> Group(quoted, entry.title, 1),
                  progress |-> progress,
                  type |-> "currently_reading"]
            ELSE unknown
       ELSE unknown

ClassifyEntry(entry) ==
    Classified(entry, Lower(entry.title),
               ReSearch(QuotedTitle, 1, entry.title, FALSE),
               ReSearch(QuotedTitle, 1, entry.title, TRUE),
               ReSearch(VerbTitle, 1, entry.title, TRUE),
               extract_progress_from_entry(entry))

\* book_entries is a dict, which keeps the order of insertion: a sequence of
\* [key |-> normalized title, entries |-> the records of the group].
GroupIndex(book_entries, key) ==
    IF \E g \in 1..Len(book_entries) : book_entries[g].key = key
    THEN CHOOSE g \in 1..Len(book_entries) : book_entries[g].key = key
    ELSE 0

\* book_entries[normalized_title].append(entry_data), the list created when
\* the key is new.
AddToGroup(book_entries, normalized_title, entry_data) ==
    LET g == GroupIndex(book_entries, normalized_title)
    IN IF g = 0
       THEN Append(book_entries, [key |-> normalized_title, entries |-> <<entry_data>>])
       ELSE [book_entries EXCEPT ![g].entries = Append(@, entry_data)]

\* A faulty variant: the entry is kept whether or not a title was extracted.
AddEntryAlways(book_entries, entry, c) ==
    AddToGroup(book_entries, normalize_book_title(c.book_title),
               [entry |-> entry,
                original_title |-> c.book_title,
                progress |-> c.progress,
                type |-> c.type,
                timestamp |-> entry.published,
                raw_rss_title |-> entry.title])

\* The entry classified as c: kept when a book title was extracted.
AddEntry(book_entries, entry, c) ==
    IF c.book_title = NoneStr \/ Len(c.book_title) = 0 THEN book_entries
    ELSE AddToGroup(book_entries, normalize_book_title(c.book_title),
                    [entry |-> entry,
                     original_title |-> c.book_title,
                     progress |-> c.progress,
                     type |-> c.type,
                     timestamp |-> entry.published,
                     raw_rss_title |-> entry.title])

\* The body of the loop over feed.entries for one entry.
CollectEntry(book_entries, entry) == AddEntry(book_entries, entry, ClassifyEntry(entry))

RECURSIVE CollectEntries(_, _)
CollectEntries(entries, k) ==
    IF k = 0 THEN <<>>
    ELSE CollectEntry(CollectEntries(entries, k - 1), entries[k])

\* The loop over the feeds of FeedPool, computed once.
PoolCollected == [entries \in PoolFeedEntries |-> CollectEntries(entries, Len(entries))]

Collected(entries) == Memo(PoolCollected, entries, CollectEntries(entries, Len(entries)))

\* url_configured: GOODREADS_RSS_URL is not the placeholder.  parsed: what
\* feedparser.parse returned, [ok |-> FALSE] when it raised, otherwise
\* [ok |-> TRUE, entries |-> the feed's entries].
find_all_book_entries(url_configured, parsed) ==
    IF ~url_configured THEN <<>>
    ELSE IF ~parsed.ok THEN <<>>
    ELSE IF Len(parsed.entries) = 0 THEN <<>>
    ELSE Collected(parsed.entries)

(***************************************************************************)
(* The cache                                                               *)
(***************************************************************************)

\* Python's None where a record or a time is expected.
NoneData == [none |-> TRUE]
NoTime == 0 - 1

ttl_minutes == 5
challenge_ttl_minutes == 30

\* The module-level cache dict as first created.
EmptyCache ==
    [book_data |-> NoneData, challenge_data |-> NoneStr,
     timestamp |-> NoTime, challenge_timestamp |-> NoTime]

\* Times are minutes; t is datetime.now().
is_cache_valid(c, t) ==
    IF c.timestamp = NoTime \/ c.book_data = NoneData THEN FALSE
    ELSE t - c.timestamp < ttl_minutes

is_challenge_cache_valid(c, t) ==
    IF c.challenge_timestamp = NoTime THEN FALSE
    ELSE t - c.challenge_timestamp < challenge_ttl_minutes

update_cache(c, book_data, t) ==
    [c EXCEPT !.book_data = book_data, !.timestamp = t]

update_challenge_cache(c, challenge_data, t) ==
    [c EXCEPT !.challenge_data = challenge_data, !.challenge_timestamp = t]

(***************************************************************************)
(* fetch_challenge_stats_enhanced                                          *)
(***************************************************************************)

MaxGoal == 500

OfBooks(prefix) ==
    Lit(prefix) \o Grp(1, Digits) \o Lit(" of ") \o Grp(2, Digits) \o Lit(" books")

RssChallengePatterns == <<
    OfBooks("You have read "),
    OfBooks("has read "),
    OfBooks("read "),
    \* (\d+) of (\d+) books.*(?:challenge|goal|2025)
    OfBooks("") \o Star(ClsDot) \o Alt(<<Lit("challenge"), Lit("goal"), Lit("2025")>>),
    \* (\d+)/(\d+) books
    Grp(1, Digits) \o Lit("/") \o Grp(2, Digits) \o Lit(" books"),
    \* has read (\d+) books? toward.*?goal of (\d+) books?
    Lit("has read ") \o Grp(1, Digits) \o Lit(" book") \o Opt(ClsLit("s")) \o Lit(" toward")
      \o LazyStar(ClsDot) \o Lit("goal of ") \o Grp(2, Digits) \o Lit(" book")
      \o Opt(ClsLit("s")) >>

ProfileChallengePatterns == <<
    OfBooks("You have read "),
    \* (\d+) of (\d+) books.*?(?:ahead of schedule|behind|on track)
    OfBooks("") \o LazyStar(ClsDot)
      \o Alt(<<Lit("ahead of schedule"), Lit("behind"), Lit("on track")>>),
    \* 2025.*?(\d+) of (\d+)
    Lit("2025") \o LazyStar(ClsDot) \o Grp(1, Digits) \o Lit(" of ") \o Grp(2, Digits),
    OfBooks(""),
    Grp(1, Digits) \o Lit("/") \o Grp(2, Digits) \o Lit(" books"),
    \* read (\d+).*?of (\d+)
    Lit("read ") \o Grp(1, Digits) \o LazyStar(ClsDot) \o Lit("of ") \o Grp(2, Digits) >>

RECURSIVE ChallengeCascade(_, _, _)

\* A faulty variant: the text "X of Y books" without the range test.
ChallengeTextUnchecked(books_read, books_goal, otherwise) ==
    IntStr(books_read) \o Chars(" of ") \o IntStr(books_goal) \o Chars(" books")

\* if 0 <= books_read <= books_goal <= 500: the text "X of Y books".
ChallengeText(books_read, books_goal, otherwise) ==
    IF 0 <= books_read /\ books_read <= books_goal /\ books_goal <= MaxGoal
    THEN IntStr(books_read) \o Chars(" of ") \o IntStr(books_goal) \o Chars(" books")
    ELSE otherwise

\* Pattern k with m what re.search gave for it.
ChallengeOf(pats, k, text, m) ==
    IF ~m.ok THEN ChallengeCascade(pats, k + 1, text)
    ELSE ChallengeText(ParseInt(Group(m, text, 1)), ParseInt(Group(m, text, 2)),
                       ChallengeCascade(pats, k + 1, text))

\* The loop over challenge_patterns on one text, from pattern k on: the
\* first match that passes the range test as "X of Y books", else NoneStr.
ChallengeCascade(pats, k, text) ==
    IF k > Len(pats) THEN NoneStr
    ELSE ChallengeOf(pats, k, text, ReSearch(pats[k], 2, text, TRUE))

\* The loop over soup.find_all("item"), from item k on.  An item's
\* description element holds the same text feedparser gives as
\* entry.description.
RECURSIVE RssChallenge(_, _)
RssChallenge(items, k) ==
    IF k > Len(items) THEN NoneStr
    ELSE FirstFound(IF HasAttr(items[k].description)
                    THEN ChallengeCascade(RssChallengePatterns, 1, items[k].description)
                    ELSE NoneStr,
                    RssChallenge(items, k + 1))

ProfileChallenge(html) == ChallengeCascade(ProfileChallengePatterns, 1, HtmlText(html))

\* The two searches on the feeds and pages of the pools, computed once.
PoolRssChallenge == [entries \in PoolFeedEntries |-> RssChallenge(entries, 1)]
PoolProfileChallenge == [html \in PoolProfileHtml |-> ProfileChallenge(html)]

RssFound(items) == Memo(PoolRssChallenge, items, RssChallenge(items, 1))

ProfileFound(html) == Memo(PoolProfileChallenge, html, ProfileChallenge(html))

\* fromRss: the challenge text found in the feed, NoneStr when the request
\* failed or no item has one; fromProfile: likewise for the profile page.
\* The result: what is returned, the cache afterwards, the requests made.
ChallengeLookup(c, t, rss_configured, user_id_configured, fromRss, fromProfile) ==
    IF is_challenge_cache_valid(c, t)
    THEN [ret |-> c.challenge_data, cache |-> c, calls |-> {}]
    ELSE IF ~rss_configured
    THEN [ret |-> NoneStr, cache |-> c, calls |-> {}]
    ELSE IF fromRss # NoneStr
    THEN [ret |-> fromRss, cache |-> update_challenge_cache(c, fromRss, t),
          calls |-> {"requests.get rss"}]
    ELSE IF ~user_id_configured
    THEN [ret |-> NoneStr, cache |-> c, calls |-> {"requests.get rss"}]
    ELSE IF fromProfile # NoneStr
    THEN [ret |-> fromProfile, cache |-> update_challenge_cache(c, fromProfile, t),
          calls |-> {"requests.get rss", "requests.get profile"}]
    ELSE [ret |-> NoneStr, cache |-> update_challenge_cache(c, NoneStr, t),
          calls |-> {"requests.get rss", "requests.get profile"}]

\* rss: the answer to requests.get(rss_url), [ok |-> FALSE] when the request
\* raised or the status is not 200, otherwise [ok |-> TRUE, entries |-> items].
\* profile: likewise for the profile page, [ok |-> TRUE, html |-> text].
fetch_challenge_stats_enhanced(c, t, rss_configured, user_id_configured, rss, profile) ==
    ChallengeLookup(c, t, rss_configured, user_id_configured,
                    IF rss.ok THEN RssFound(rss.entries) ELSE NoneStr,
                    IF profile.ok THEN ProfileFound(profile.html) ELSE NoneStr)

(***************************************************************************)
(* build_enhanced_book_data                                                *)
(***************************************************************************)

\* x['timestamp'] or ''
SortKey(entry_data) ==
    IF entry_data.timestamp = NoneStr THEN <<>> ELSE entry_data.timestamp

\* sorted(entries, key=lambda x: x['timestamp'] or '', reverse=True): by
\* decreasing key, records of equal key in their order in entries.
SortedEntries(entries) ==
    LET rank(i) ==
            Cardinality({j \in 1..Len(entries) :
                            \/ StrGreater(SortKey(entries[j]), SortKey(entries[i]))
                            \/ (j < i /\ SortKey(entries[j]) = SortKey(entries[i]))})
    IN [r \in 1..Len(entries) |->
            entries[CHOOSE i \in 1..Len(entries) : rank(i) = r - 1]]

\* The body of the selection loop for group k, whose records sorted are
\* sorted_entries; prev holds most_recent_book and most_recent_time before.
NextRecent(prev, k, sorted_entries) ==
    LET entry_time == sorted_entries[1].timestamp
    IN IF Len(sorted_entries) = 0 THEN prev
       ELSE IF \/ prev.time = NoneStr
               \/ (entry_time # NoneStr /\ Len(entry_time) > 0
                   /\ StrGreater(entry_time, prev.time))
       THEN [book |-> k, time |-> entry_time]
       ELSE prev

\* The loop that finds the most recently active book, after the first k
\* groups: [book |-> index of the group held in most_recent_book (0 for
\* None), time |-> most_recent_time].
RECURSIVE MostRecent(_, _)
MostRecent(book_entries, k) ==
    IF k = 0 THEN [book |-> 0, time |-> NoneStr]
    ELSE NextRecent(MostRecent(book_entries, k - 1), k,
                    SortedEntries(book_entries[k].entries))

\* src="(https://[^"]+\.jpg)"
CoverPattern ==
    Lit("src=\"") \o Grp(1, Lit("https://") \o Plus(ClsNotIn({"\""})) \o Lit(".jpg"))
    \o Lit("\"")

\* The body of the fusion loop for the record entry_data; prev holds the
\* loop's variables before, author is extract_author_robust of the record's
\* entry and cover_match the search for the cover in its description.
FusionStep(prev, entry_data, author, cover_match) ==
    LET better == \/ entry_data.progress > prev.best_progress
                  \/ (entry_data.progress > 0 /\ prev.best_progress = 0)
    IN [best_progress |->
            IF better THEN entry_data.progress ELSE prev.best_progress,
        best_progress_entry |->
            IF better THEN entry_data ELSE prev.best_progress_entry,
        best_metadata_entry |->
            IF entry_data.type = "started" /\ prev.best_metadata_entry = NoneData
            THEN entry_data ELSE prev.best_metadata_entry,
        best_cover_url |->
            IF cover_match.ok /\ prev.best_cover_url = NoneStr
            THEN Group(cover_match, entry_data.entry.description, 1)
            ELSE prev.best_cover_url,
        all_authors |->
            IF author # NoneStr THEN prev.all_authors \cup {author}
            ELSE prev.all_authors]

\* The fusion loop over the first k records of entries: the loop's variables.
RECURSIVE FusionLoop(_, _)
FusionLoop(entries, k) ==
    IF k = 0
    THEN [best_progress |-> 0, best_progress_entry |-> NoneData,
          best_metadata_entry |-> NoneData, best_cover_url |-> NoneStr,
          all_authors |-> {}]
    ELSE FusionStep(FusionLoop(entries, k - 1), entries[k],
                    extract_author_robust(entries[k].entry),
                    IF HasAttr(entries[k].entry.description)
                    THEN ReSearch(CoverPattern, 1, entries[k].entry.description, FALSE)
                    ELSE NoMatch)

\* The loop that chooses the best title, over the first k records.
RECURSIVE BestTitle(_, _, _)
BestTitle(entries, k, first) ==
    IF k = 0 THEN first
    ELSE LET prev == BestTitle(entries, k - 1, first)
         IN IF Len(entries[k].original_title) > Len(prev)
            THEN entries[k].original_title ELSE prev

\* max(all_authors, key=len) returns the first name of maximal length in the
\* set's iteration order, which follows the hashes of the strings: each name
\* of maximal length is a possible result.
BestAuthors(all_authors) ==
    IF all_authors = {} THEN {UnknownAuthor}
    ELSE {a \in all_authors : \A b \in all_authors : Len(b) <= Len(a)}

\* What follows the fusion loop, whose variables are in loop: [kind |->
\* "raise"] when the subscript of best_progress_entry raises TypeError,
\* otherwise the fused fields with the set of possible authors.
FuseResult(most_recent_book, entries, loop) ==
    LET best_metadata_entry ==
            IF loop.best_metadata_entry = NoneData THEN entries[1]
            ELSE loop.best_metadata_entry
    IN IF loop.best_progress_entry = NoneData THEN [kind |-> "raise"]
       ELSE [kind |-> "fused",
             group |-> most_recent_book,
             title |-> BestTitle(entries, Len(entries),
                                 loop.best_progress_entry.original_title),
             authors |-> BestAuthors(loop.all_authors),
             progress |-> loop.best_progress,
             cover_url |-> loop.best_cover_url,
             start_date |-> best_metadata_entry.timestamp,
             update_date |-> loop.best_progress_entry.timestamp,
             entry_types |-> [i \in 1..Len(entries) |-> entries[i].type],
             entries_count |-> Len(entries),
             selected_progress_entry |-> loop.best_progress_entry.raw_rss_title]

\* The fusion of the records of the selected group, sorted.
FuseSorted(most_recent_book, entries) ==
    FuseResult(most_recent_book, entries, FusionLoop(entries, Len(entries)))

FuseGroup(book_entries, most_recent_book) ==
    IF most_recent_book = 0 THEN [kind |-> "none"]
    ELSE FuseSorted(most_recent_book,
                    SortedEntries(book_entries[most_recent_book].entries))

\* Lines 383-465: the selection and the fusion, before the challenge lookup.
\* [kind |-> "none"] when None is returned.
FuseEntries(book_entries) ==
    IF Len(book_entries) = 0 THEN [kind |-> "none"]
    ELSE FuseGroup(book_entries, MostRecent(book_entries, Len(book_entries)).book)

\* The fusion of the grouped entries of the feeds of FeedPool, computed once.
PoolFused == [book_entries \in {PoolCollected[e] : e \in PoolFeedEntries} |->
                  FuseEntries(book_entries)]

Fused(book_entries) == Memo(PoolFused, book_entries, FuseEntries(book_entries))

\* The record returned (lines 476-487), from the fusion f.
FusedRecord(f, best_author, challenge_data) ==
    [title |-> f.title,
     author |-> best_author,
     progress |-> f.progress,
     cover_url |-> f.cover_url,
     start_date |-> f.start_date,
     update_date |-> f.update_date,
     challenge |-> challenge_data,
     entry_types |-> f.entry_types,
     entries_count |-> f.entries_count,
     selected_progress_entry |-> f.selected_progress_entry]

\* f: the fusion; ch: what fetch_challenge_stats_enhanced gives when called.
BuildResult(c, f, ch) ==
    IF f.kind = "none"
    THEN {[raised |-> FALSE, ret |-> NoneData, cache |-> c, calls |-> {}]}
    ELSE IF f.kind = "raise"
    THEN {[raised |-> TRUE, ret |-> NoneData, cache |-> c, calls |-> {}]}
    ELSE {[raised |-> FALSE,
           ret |-> FusedRecord(f, best_author, ch.ret),
           cache |-> ch.cache,
           calls |-> {"fetch_challenge_stats_enhanced"} \cup ch.calls]
          : best_author \in f.authors}

\* The results the call can have: [raised |-> TRUE, cache, calls] or
\* [raised |-> FALSE, ret, cache, calls], with the cache as the call leaves it
\* and the names of the functions and requests it invoked.
build_enhanced_book_data(book_entries, c, t, rss_configured, user_id_configured, rss, profile) ==
    BuildResult(c, Fused(book_entries),
                fetch_challenge_stats_enhanced(c, t, rss_configured, user_id_configured,
                                               rss, profile))

(***************************************************************************)
(* fetch_book_data                                                         *)
(***************************************************************************)

ConfigRequiredData ==
    [title |-> Chars("Configuration Required"),
     author |-> Chars("Please update GOODREADS_RSS_URL in app.py"),
     progress |-> 0, cover_url |-> NoneStr, start_date |-> NoneStr,
     update_date |-> NoneStr,
     challenge |-> Chars("Update your RSS URL to see challenge data"),
     entries_count |-> 0]

fallback_data ==
    [title |-> Chars("No current book found"),
     author |-> Chars("Check Goodreads activity"),
     progress |-> 0, cover_url |-> NoneStr, start_date |-> NoneStr,
     update_date |-> NoneStr, challenge |-> NoneStr, entries_count |-> 0]

\* return fallback_data, after update_cache(fallback_data)
Fallback(c, t, calls) ==
    [raised |-> FALSE, ret |-> fallback_data,
     cache |-> update_cache(c, fallback_data, t), calls |-> calls]

\* The cache is not valid: book_entries is what find_all_book_entries gave.
FetchFresh(c, t, rss_configured, user_id_configured, book_entries, rss, profile) ==
    IF Len(book_entries) = 0 THEN {Fallback(c, t, {"find_all_book_entries"})}
    ELSE {IF b.raised
          THEN [raised |-> TRUE, ret |-> NoneData, cache |-> b.cache,
                calls |-> {"find_all_book_entries", "build_enhanced_book_data"}
                          \cup b.calls]
          ELSE IF b.ret = NoneData
          THEN Fallback(b.cache, t, {"find_all_book_entries", "build_enhanced_book_data"})
          ELSE [raised |-> FALSE, ret |-> b.ret,
                cache |-> update_cache(b.cache, b.ret, t),
                calls |-> {"find_all_book_entries", "build_enhanced_book_data"}
                          \cup b.calls]
          : b \in build_enhanced_book_data(book_entries, c, t, rss_configured,
                                           user_id_configured, rss, profile)}

\* parsed: what feedparser.parse gives; rss, profile: what requests.get gives
\* for the feed and for the profile page.  The results the call can have,
\* as for build_enhanced_book_data.
fetch_book_data(c, t, rss_configured, user_id_configured, parsed, rss, profile) ==
    IF ~rss_configured
    THEN {[raised |-> FALSE, ret |-> ConfigRequiredData, cache |-> c, calls |-> {}]}
    ELSE IF is_cache_valid(c, t)
    THEN {[raised |-> FALSE, ret |-> c.book_data, cache |-> c, calls |-> {}]}
    ELSE FetchFresh(c, t, rss_configured, user_id_configured,
                    find_all_book_entries(rss_configured, parsed), rss, profile)

(***************************************************************************)
(* The /trmnl-data payload.  The dates and the current time of the payload *)
(* are left out: they are formatted from the record and the clock and      *)
(* nothing reads them back.                                                *)
(***************************************************************************)

\* int(s) of a str: the whitespace around is dropped, a sign may come
\* first, and the digits may be separated by single underscores.
Unsigned(s) ==
    IF Len(s) > 0 /\ s[1] \in {"+", "-"} THEN SubSeq(s, 2, Len(s)) ELSE s

IsDigits(d) ==
    /\ Len(d) > 0
    /\ d[1] \in DigitChars
    /\ d[Len(d)] \in DigitChars
    /\ \A i \in 1..Len(d) : d[i] \in DigitChars \cup {"_"}
    /\ \A i \in 1..(Len(d) - 1) : ~(d[i] = "_" /\ d[i + 1] = "_")

\* int(s) does not raise ValueError.
IsNumber(s) == IsDigits(Unsigned(Strip(s)))

NotUnderscore(c) == c # "_"

SignedInt(stripped) ==
    IF stripped[1] = "-"
    THEN 0 - ParseInt(SelectSeq(Unsigned(stripped), NotUnderscore))
    ELSE ParseInt(SelectSeq(Unsigned(stripped), NotUnderscore))

\* int(s), for s with IsNumber(s).
IntOf(s) == SignedInt(Strip(s))

\* int((current / total) * 100) for total # 0: the division and the product
\* round the same way for both signs, and int() truncates towards zero.
SignedPercent(current, total) ==
    IF (current < 0) = (total < 0) \/ current = 0
    THEN PercentOf(IF current < 0 THEN 0 - current ELSE current,
                   IF total < 0 THEN 0 - total ELSE total)
    ELSE 0 - PercentOf(IF current < 0 THEN 0 - current ELSE current,
                       IF total < 0 THEN 0 - total ELSE total)

\* The "Calculate challenge progress percentage" block: 0 unless the text
\* splits in two on " of ", int() takes both numbers and the total is not 0
\* (ValueError and ZeroDivisionError are caught).
PercentOfNumbers(books_read, total) ==
    IF ~IsNumber(books_read) \/ ~IsNumber(total) THEN 0
    ELSE IF IntOf(total) = 0 THEN 0
    ELSE Min(SignedPercent(IntOf(books_read), IntOf(total)), 100)

PercentOfParts(parts) ==
    IF Len(parts) # 2 THEN 0
    ELSE PercentOfNumbers(parts[1], Split(parts[2], Chars(" "))[1])

ChallengePercent(challenge) ==
    IF challenge = NoneStr \/ Len(challenge) = 0 THEN 0
    ELSE PercentOfParts(Split(challenge, Chars(" of ")))

\* The percentages of the challenge texts the pools can produce, computed once.
PoolChallengePercent ==
    [challenge \in ({PoolRssChallenge[e] : e \in PoolFeedEntries}
                    \cup {PoolProfileChallenge[h] : h \in PoolProfileHtml}) \ {NoneStr}
        |-> ChallengePercent(challenge)]

challenge_progress_percent(challenge) ==
    Memo(PoolChallengePercent, challenge, ChallengePercent(challenge))

ConfigRequiredPayload ==
    [status |-> 200,
     title |-> Chars("Configuration Required"),
     author |-> Chars("Please update your RSS URL in app.py"),
     progress |-> 0,
     challenge |-> Chars("Update GOODREADS_RSS_URL in app.py"),
     challenge_progress_percent |-> 0, entries_count |-> 0]

ErrorPayload ==
    [status |-> 500,
     title |-> Chars("Error Loading Data"),
     author |-> Chars("Please check configuration and connection"),
     progress |-> 0, challenge |-> NoneStr,
     challenge_progress_percent |-> 0, entries_count |-> 0]

BookPayload(book) ==
    [status |-> 200,
     title |-> book.title, author |-> book.author, progress |-> book.progress,
     cover_url |-> book.cover_url, challenge |-> book.challenge,
     challenge_progress_percent |-> challenge_progress_percent(book.challenge),
     entries_count |-> book.entries_count]

(***************************************************************************)
(* The server: the cache, the clock, the configuration and the remote      *)
(* documents, the requests being handled and a record of the last step.    *)
(* app.run serves each request in a thread of its own and nothing locks    *)
(* the cache: a request is handled in steps, one for each read or write of *)
(* a field of the cache, and the steps of the requests in progress         *)
(* interleave.  What a handler does between two accesses (parsing the      *)
(* feed, the fusion, the outbound requests) touches nothing shared and is  *)
(* part of the step of the access before it.  The routes that neither read *)
(* nor write the cache (/, /health, /test-data, /debug-entries) are left   *)
(* out.                                                                    *)
(***************************************************************************)

VARIABLES
    cache,      \* the module-level cache dict
    now,        \* datetime.now(), in minutes since the server started
    env,        \* [rss_configured, user_id_configured, feed, profile]: whether
                \* GOODREADS_RSS_URL and GOODREADS_USER_ID are set, and the
                \* feed and the profile page served, as indexes in the pools
    requests,   \* the requests being handled: a bag of records [op, pc, ...]
    last,       \* the last step: the request it completed, with its answer,
                \* the call of fetch_challenge_stats_enhanced that returned in
                \* it, or a step in which nothing returned
    arg,        \* the input of the function under study (function runs only)
    result      \* what it returned (function runs only)

vars == <<cache, now, env, requests, last, arg, result>>

\* The instants the clock reaches after the start: the ends of the two
\* lifetimes, counted from the start.
Instants == {ttl_minutes, challenge_ttl_minutes}

\* The requests handled at the same time.
MaxThreads == 2

\* The challenge text the profile page p gives (lines 345-371), NoneStr
\* when the request fails or the page has none.
ProfileText(p) ==
    IF ProfilePool[p].ok THEN ProfileFound(ProfilePool[p].html) ELSE NoneStr

\* The configurations.  A document that no request reads is not varied:
\* the feed when the feed URL is not set, the profile page when the user id
\* is not set or the feed has a challenge text (lines 284, 329, 317); and
\* of the profile pages that give the same challenge text, the first is
\* taken.
Envs ==
    {e \in [rss_configured : BOOLEAN, user_id_configured : BOOLEAN,
            feed : DOMAIN FeedPool, profile : DOMAIN ProfilePool] :
        /\ ~e.rss_configured => (e.feed = 1 /\ ~e.user_id_configured)
        /\ ~e.user_id_configured => e.profile = 1
        /\ (FeedPool[e.feed].ok /\ RssFound(FeedPool[e.feed].entries) # NoneStr)
              => e.profile = 1
        /\ \A p \in 1..(e.profile - 1) : ProfileText(p) # ProfileText(e.profile)}

\* No request handled yet; no function run yet.
NoRequest == [op |-> "start", raised |-> FALSE, ret |-> NoneData, calls |-> {}]
NoArg == [fn |-> "none"]
NoResult == [fn |-> "none"]

\* A step in which nothing returned.
Running == [op |-> "step", raised |-> FALSE, ret |-> NoneData, calls |-> {}]

Init ==
    /\ cache = EmptyCache
    /\ now = 0
    /\ env \in Envs
    /\ requests = EmptyBag
    /\ last = NoRequest
    /\ arg = NoArg
    /\ result = NoResult

\* A request as it arrives.  pc: the access to the cache it makes next; calls: the
\* functions and outbound requests it has invoked; data: the record it has
\* built; challenge: what fetch_challenge_stats_enhanced returned to it;
\* slot_valid: for /trmnl-data, whether the book slot was valid when the
\* request arrived (kept for the properties, the code has no such value);
\* book_cache_valid, cache_valid: what is_cache_valid() and
\* is_challenge_cache_valid() told /debug and /test-challenge for the answer;
\* clock: what datetime.now() returned for the age or the timestamp of its
\* next access; written: the timestamp its update_cache gave the book slot;
\* error: the expression that raised.
Arrived(op, c, t) ==
    [op |-> op, pc |-> "begin", calls |-> {}, data |-> NoneData, challenge |-> NoneStr,
     slot_valid |-> op = "serve_trmnl_data" /\ is_cache_valid(c, t),
     book_cache_valid |-> FALSE, cache_valid |-> FALSE, clock |-> NoTime, written |-> NoTime, raised |-> FALSE,
     error |-> "", ret |-> NoneData]

Goto(r, pc) == [r EXCEPT !.pc = pc]

\* datetime.now() is evaluated before the access that follows it: before
\* the read of the timestamp in "datetime.now() - cache['timestamp']" (lines
\* 34, 41) and before the assignment in "cache['timestamp'] =
\* datetime.now()" (lines 47, 53).  The clock is read in the step of the
\* access before, and the value is used in the step of the access.
ReadsClock(r, pc, t) == [r EXCEPT !.pc = pc, !.clock = t]
ClockUsed(r) == [r EXCEPT !.clock = NoTime]
Called(r, names) == [r EXCEPT !.calls = @ \cup names]
Returns(r, ret) == [r EXCEPT !.pc = "done", !.ret = ret]
Raises(r, error) == [r EXCEPT !.pc = "done", !.raised = TRUE, !.error = error]

\* One access: the request afterwards and the cache afterwards.
Step(r, c) == [req |-> r, cache |-> c]

\* fetch_challenge_stats_enhanced returns challenge_data to its caller:
\* build_enhanced_book_data puts it in the record, which fetch_book_data
\* then stores (line 518) and /debug answers with after reading the state
\* of the cache (lines 624-628); /test-challenge reads the state of the
\* challenge slot (lines 673-674).
ChallengeReturned(r, challenge_data) ==
    IF r.op = "test_challenge"
    THEN [r EXCEPT !.challenge = challenge_data, !.pc = "status_challenge_timestamp"]
    ELSE [r EXCEPT !.challenge = challenge_data,
                   !.data = [r.data EXCEPT !.challenge = challenge_data],
                   !.pc = IF r.op = "debug_info" THEN "status_timestamp"
                          ELSE "update_book_data"]

\* Lines 280-376 when the challenge slot is not valid: the outbound requests
\* and the searches.  fromRss: the challenge text found in the feed, NoneStr
\* when the request failed or no item has one; fromProfile: likewise for the
\* profile page.  A text found, and None after the two searches, go to
\* update_challenge_cache.
ChallengeSearched(r, rss_configured, user_id_configured, fromRss, fromProfile) ==
    IF ~rss_configured THEN ChallengeReturned(r, NoneStr)
    ELSE IF fromRss # NoneStr
    THEN [Called(r, {"requests.get rss"})
             EXCEPT !.challenge = fromRss, !.pc = "write_challenge_data"]
    ELSE IF ~user_id_configured
    THEN ChallengeReturned(Called(r, {"requests.get rss"}), NoneStr)
    ELSE [Called(r, {"requests.get rss", "requests.get profile"})
             EXCEPT !.challenge = fromProfile, !.pc = "write_challenge_data"]

ChallengeSearch(r, e) ==
    ChallengeSearched(r, e.rss_configured, e.user_id_configured,
                      IF FeedPool[e.feed].ok
                      THEN RssFound(FeedPool[e.feed].entries) ELSE NoneStr,
                      ProfileText(e.profile))

\* The call of fetch_challenge_stats_enhanced: its first access.
ChallengeCalled(r) ==
    Goto(Called(r, {"fetch_challenge_stats_enhanced"}), "challenge_timestamp")

\* build_enhanced_book_data up to the call of fetch_challenge_stats_enhanced,
\* on the fusion f: the requests that can follow.
Built(r, f) ==
    IF f.kind = "none" THEN {Goto(r, "none")}
    ELSE IF f.kind = "raise" THEN {Raises(r, "best_progress_entry['original_title']")}
    ELSE {ChallengeCalled([r EXCEPT !.data = FusedRecord(f, best_author, NoneStr)])
          : best_author \in f.authors}

\* update_cache(fallback_data) is next.
FallsBack(r) == [r EXCEPT !.data = fallback_data, !.pc = "update_book_data"]

\* fetch_book_data when the book slot is not valid (lines 513-535), on the
\* groups find_all_book_entries gave, up to the next access to the cache.
Fresh(r, book_entries) ==
    IF Len(book_entries) = 0 THEN {FallsBack(Called(r, {"find_all_book_entries"}))}
    ELSE {IF b.pc = "none" THEN FallsBack(b) ELSE b
          : b \in Built(Called(r, {"find_all_book_entries", "build_enhanced_book_data"}),
                        Fused(book_entries))}

FreshBook(r, e) == Fresh(r, find_all_book_entries(e.rss_configured, FeedPool[e.feed]))

\* /debug up to its first access to the cache (lines 618-619).
Debugged(r, book_entries) ==
    IF Len(book_entries) = 0
    THEN {Goto(Called(r, {"find_all_book_entries"}), "status_timestamp")}
    ELSE {IF b.pc = "none" THEN Goto(b, "status_timestamp") ELSE b
          : b \in Built(Called(r, {"find_all_book_entries", "build_enhanced_book_data"}),
                        Fused(book_entries))}

\* The handler up to its first access to the cache.  /trmnl-data answers
\* at once when the feed URL is the placeholder (lines 553-564).
Begin(r, e) ==
    CASE r.op = "serve_trmnl_data" ->
           IF ~e.rss_configured THEN {Returns(r, NoneData)}
           ELSE {Goto(Called(r, {"fetch_book_data"}), "timestamp")}
      [] r.op = "debug_info" ->
           Debugged(r, find_all_book_entries(e.rss_configured, FeedPool[e.feed]))
      [] r.op = "test_challenge" -> {Goto(r, "clear_challenge_data")}
      [] r.op = "clear_cache" -> {Goto(r, "clear_book_data")}

\* is_cache_valid() and the return of the cached record, in fetch_book_data
\* (lines 508-510): the reads of cache['timestamp'], cache['book_data'],
\* cache['timestamp'] again for the age, and cache['book_data'] for the
\* record returned.  datetime.now() - None raises TypeError; the handler's
\* book.get raises AttributeError when the record read is None.  The last
\* line of update_cache (line 48) reads cache['timestamp'] for its message,
\* and None has no strftime.
BookSlotRead(r, c, t, e) ==
    CASE r.pc = "timestamp" ->
           IF c.timestamp = NoTime THEN FreshBook(r, e) ELSE {Goto(r, "book_data")}
      [] r.pc = "book_data" ->
           IF c.book_data = NoneData THEN FreshBook(r, e) ELSE {ReadsClock(r, "age", t)}
      [] r.pc = "age" ->
           IF c.timestamp = NoTime
           THEN {Raises(ClockUsed(r), "datetime.now() - cache['timestamp']")}
           ELSE IF r.clock - c.timestamp < ttl_minutes
           THEN {Goto(ClockUsed(r), "cached_book_data")}
           ELSE FreshBook(ClockUsed(r), e)
      [] r.pc = "cached_book_data" ->
           IF c.book_data = NoneData THEN {Raises(r, "book.get('challenge')")}
           ELSE {Returns(r, c.book_data)}
      [] r.pc = "updated_timestamp" ->
           IF c.timestamp = NoTime THEN {Raises(r, "cache['timestamp'].strftime('%H:%M:%S')")}
           ELSE {Returns(r, r.data)}

\* fetch_challenge_stats_enhanced: is_challenge_cache_valid() reads
\* cache['challenge_timestamp'] and reads it again for the age (line 41);
\* the cached text is read at line 275.
ChallengeSlotRead(r, c, t, e) ==
    CASE r.pc = "challenge_timestamp" ->
           IF c.challenge_timestamp = NoTime THEN {ChallengeSearch(r, e)}
           ELSE {ReadsClock(r, "challenge_age", t)}
      [] r.pc = "challenge_age" ->
           IF c.challenge_timestamp = NoTime
           THEN {Raises(ClockUsed(r), "datetime.now() - cache['challenge_timestamp']")}
           ELSE IF r.clock - c.challenge_timestamp < challenge_ttl_minutes
           THEN {Goto(ClockUsed(r), "cached_challenge_data")}
           ELSE {ChallengeSearch(ClockUsed(r), e)}
      [] r.pc = "cached_challenge_data" -> {ChallengeReturned(r, c.challenge_data)}

\* The state of the cache that /debug reports (lines 624-627):
\* is_cache_valid(), is_challenge_cache_valid(), and each timestamp read
\* once for the test and once for isoformat(), which None does not have.
\* What is read goes into the answer only: book_cache_valid and
\* cache_valid are the two tests.
StatusRead(r, c, t) ==
    CASE r.pc = "status_timestamp" ->
           Goto(r, IF c.timestamp = NoTime THEN "status_challenge_timestamp"
                   ELSE "status_book_data")
      [] r.pc = "status_book_data" ->
           IF c.book_data = NoneData THEN Goto(r, "status_challenge_timestamp")
           ELSE ReadsClock(r, "status_age", t)
      [] r.pc = "status_age" ->
           IF c.timestamp = NoTime
           THEN Raises(ClockUsed(r), "datetime.now() - cache['timestamp']")
           ELSE [r EXCEPT !.book_cache_valid = r.clock - c.timestamp < ttl_minutes,
                          !.clock = NoTime, !.pc = "status_challenge_timestamp"]
      [] r.pc = "book_timestamp" ->
           Goto(r, IF c.timestamp = NoTime THEN "challenge_timestamp_set"
                   ELSE "book_timestamp_isoformat")
      [] r.pc = "book_timestamp_isoformat" ->
           IF c.timestamp = NoTime THEN Raises(r, "cache['timestamp'].isoformat()")
           ELSE Goto(r, "challenge_timestamp_set")

\* The state of the challenge slot that /debug (lines 625, 627, 628) and
\* /test-challenge (lines 673-674) report; the challenge field of a /debug
\* request ends as the cached_challenge of its answer.
ChallengeStatusRead(r, c, t) ==
    CASE r.pc = "status_challenge_timestamp" ->
           IF c.challenge_timestamp = NoTime
           THEN Goto(r, IF r.op = "debug_info" THEN "book_timestamp"
                        ELSE "challenge_timestamp_set")
           ELSE ReadsClock(r, "status_challenge_age", t)
      [] r.pc = "status_challenge_age" ->
           IF c.challenge_timestamp = NoTime
           THEN Raises(ClockUsed(r), "datetime.now() - cache['challenge_timestamp']")
           ELSE [r EXCEPT !.cache_valid =
                              r.clock - c.challenge_timestamp < challenge_ttl_minutes,
                          !.clock = NoTime,
                          !.pc = IF r.op = "debug_info" THEN "book_timestamp"
                                 ELSE "challenge_timestamp_set"]
      [] r.pc = "challenge_timestamp_set" ->
           IF c.challenge_timestamp # NoTime THEN Goto(r, "challenge_timestamp_isoformat")
           ELSE IF r.op = "debug_info" THEN Goto(r, "status_challenge_data")
           ELSE Returns(r, NoneData)
      [] r.pc = "challenge_timestamp_isoformat" ->
           IF c.challenge_timestamp = NoTime
           THEN Raises(r, "cache['challenge_timestamp'].isoformat()")
           ELSE IF r.op = "debug_info" THEN Goto(r, "status_challenge_data")
           ELSE Returns(r, NoneData)
      [] r.pc = "status_challenge_data" ->
           [Returns(r, r.data) EXCEPT !.challenge = c.challenge_data]

\* The writes: update_challenge_cache (lines 52-53), update_cache (lines
\* 46-47), the two assignments of /test-challenge (lines 667-668) and the
\* four of /clear-cache (lines 687-690), one field at a time.
Write(r, c, t, e) ==
    CASE r.pc = "write_challenge_data" ->
           Step(ReadsClock(r, "write_challenge_timestamp", t),
                [c EXCEPT !.challenge_data = r.challenge])
      [] r.pc = "write_challenge_timestamp" ->
           Step(ChallengeReturned(ClockUsed(r), r.challenge),
                [c EXCEPT !.challenge_timestamp = r.clock])
      [] r.pc = "update_book_data" ->
           Step(ReadsClock(r, "update_timestamp", t), [c EXCEPT !.book_data = r.data])
      [] r.pc = "update_timestamp" ->
           Step([r EXCEPT !.pc = "updated_timestamp", !.written = r.clock,
                          !.clock = NoTime],
                [c EXCEPT !.timestamp = r.clock])
      [] r.pc = "clear_challenge_data" ->
           Step(Goto(r, IF r.op = "clear_cache" THEN "clear_timestamp"
                        ELSE "clear_challenge_timestamp"),
                [c EXCEPT !.challenge_data = NoneStr])
      [] r.pc = "clear_challenge_timestamp" ->
           Step(IF r.op = "clear_cache" THEN Returns(r, NoneData) ELSE ChallengeCalled(r),
                [c EXCEPT !.challenge_timestamp = NoTime])
      [] r.pc = "clear_book_data" ->
           Step(Goto(r, "clear_challenge_data"), [c EXCEPT !.book_data = NoneData])
      [] r.pc = "clear_timestamp" ->
           Step(Goto(r, "clear_challenge_timestamp"), [c EXCEPT !.timestamp = NoTime])

BookSlotReads == {"timestamp", "book_data", "age", "cached_book_data", "updated_timestamp"}
ChallengeSlotReads == {"challenge_timestamp", "challenge_age", "cached_challenge_data"}
StatusReads ==
    {"status_timestamp", "status_book_data", "status_age", "book_timestamp",
     "book_timestamp_isoformat"}
ChallengeStatusReads ==
    {"status_challenge_timestamp", "status_challenge_age", "challenge_timestamp_set",
     "challenge_timestamp_isoformat", "status_challenge_data"}

\* What the request r can do next, with the cache c at time t.
Accesses(r, c, t, e) ==
    IF r.pc = "done" THEN {Step(r, c)}
    ELSE IF r.pc \in BookSlotReads THEN {Step(b, c) : b \in BookSlotRead(r, c, t, e)}
    ELSE IF r.pc \in ChallengeSlotReads
    THEN {Step(b, c) : b \in ChallengeSlotRead(r, c, t, e)}
    ELSE IF r.pc \in StatusReads THEN {Step(StatusRead(r, c, t), c)}
    ELSE IF r.pc \in ChallengeStatusReads THEN {Step(ChallengeStatusRead(r, c, t), c)}
    ELSE {Write(r, c, t, e)}

\* The accesses of fetch_challenge_stats_enhanced.
ChallengeAccesses ==
    ChallengeSlotReads \cup {"write_challenge_data", "write_challenge_timestamp"}

\* The steps the request r can take next: returned tells that its call of
\* fetch_challenge_stats_enhanced returns in the step.
Steps(r, c, t, e) ==
    {[req |-> s.req, cache |-> s.cache,
      returned |-> /\ r.pc \in ChallengeAccesses
                   /\ s.req.pc \notin ChallengeAccesses
                   /\ ~s.req.raised]
     : s \in Accesses(r, c, t, e)}

\* The first step of a request to the route op: the handler up to its first
\* access to the cache, that access included.
Arrival(op, c, t, e) == UNION {Steps(b, c, t, e) : b \in Begin(Arrived(op, c, t), e)}

\* What a call of fetch_challenge_stats_enhanced returned in the request r.
ChallengeAnswered(r) ==
    [op |-> "fetch_challenge_stats_enhanced", raised |-> FALSE, ret |-> r.challenge,
     calls |-> r.calls, caller |-> r.op]

\* The answer of a completed request.
Answered(r) ==
    IF r.op = "serve_trmnl_data"
    THEN [op |-> r.op, raised |-> r.raised, error |-> r.error, ret |-> r.ret,
          calls |-> r.calls, slot_valid |-> r.slot_valid, written |-> r.written,
          payload |-> IF r.raised THEN ErrorPayload
                      ELSE IF r.ret = NoneData THEN ConfigRequiredPayload
                      ELSE BookPayload(r.ret)]
    ELSE IF r.op = "test_challenge"
    THEN [op |-> r.op, raised |-> r.raised, error |-> r.error, ret |-> r.challenge,
          calls |-> r.calls, cache_valid |-> r.cache_valid]
    ELSE IF r.op = "debug_info"
    THEN [op |-> r.op, raised |-> r.raised, error |-> r.error, ret |-> r.ret,
          calls |-> r.calls, book_cache_valid |-> r.book_cache_valid,
          cache_valid |-> r.cache_valid, cached_challenge |-> r.challenge]
    ELSE [op |-> r.op, raised |-> r.raised, error |-> r.error, ret |-> r.ret,
          calls |-> r.calls]

\* A request, in progress or arriving, takes the step s; others are the
\* other requests in progress.
Takes(others, s) ==
    /\ cache' = s.cache
    /\ IF s.req.pc = "done"
       THEN requests' = others /\ last' = Answered(s.req)
       ELSE /\ requests' = others (+) SetToBag({s.req})
            /\ last' = IF s.returned THEN ChallengeAnswered(s.req) ELSE Running
    /\ UNCHANGED <<now, env, arg, result>>

\* A request to the route op arrives, or one in progress goes on.
Handle(op) ==
    \/ /\ BagCardinality(requests) < MaxThreads
       /\ \E s \in Arrival(op, cache, now, env) : Takes(requests, s)
    \/ \E r \in BagToSet(requests) :
          /\ r.op = op
          /\ \E s \in Steps(r, cache, now, env) : Takes(requests (-) SetToBag({r}), s)

\* GET /trmnl-data
serve_trmnl_data == Handle("serve_trmnl_data")

\* GET /debug
debug_info == Handle("debug_info")

\* GET /test-challenge
test_challenge == Handle("test_challenge")

\* GET /clear-cache
clear_cache == Handle("clear_cache")

\* Time passes, up to the instant t.
Tick(t) ==
    /\ t > now
    /\ now' = t
    /\ last' = Running
    /\ UNCHANGED <<cache, env, requests, arg, result>>

Next ==
    \/ serve_trmnl_data
    \/ debug_info
    \/ test_challenge
    \/ clear_cache
    \/ \E t \in Instants : Tick(t)

Spec == Init /\ [][Next]_vars

\* The requests handled one after the other: none arrives while another is
\* in progress.
SpecSerial == Init /\ [][Next /\ BagCardinality(requests') <= 1]_vars

(***************************************************************************)
(* Properties of the server                                                *)
(***************************************************************************)

\* C1: with the feed URL configured, a call of fetch_book_data made while the
\* book slot is valid returns the cached record without invoking
\* find_all_book_entries, build_enhanced_book_data or
\* fetch_challenge_stats_enhanced, and a call made when the slot is empty or
\* 5 minutes old invokes find_all_book_entries and rewrites the slot.
C1_CacheGating ==
    (last.op = "serve_trmnl_data" /\ env.rss_configured) =>
        IF last.slot_valid
        THEN /\ ~last.raised
             /\ last.ret # NoneData
             /\ last.calls = {"fetch_book_data"}
        ELSE /\ "find_all_book_entries" \in last.calls
             /\ last.written # NoTime
             /\ cache.timestamp = last.written
             /\ cache.book_data # NoneData
             /\ cache.book_data = last.ret

\* C2: build_enhanced_book_data returns a record and never raises on groups
\* that are not empty, also when every record of the selected group has
\* progress 0; fetch_book_data then returns a book record and /trmnl-data
\* answers with a normal payload, not with HTTP 500 "Error Loading Data".
C2_BuildNeverRaises ==
    (last.op \in {"serve_trmnl_data", "debug_info"}
        /\ "build_enhanced_book_data" \in last.calls) =>
        /\ ~last.raised
        /\ last.ret # NoneData
        /\ last.ret.progress \in 0..100
        /\ last.op = "serve_trmnl_data" =>
              /\ last.payload.status = 200
              /\ last.payload.title # Chars("Error Loading Data")

\* C8: when a call of fetch_challenge_stats_enhanced finds no plausible match
\* in the feed and none on the profile page (or the page is unavailable or
\* the user id not usable), it returns None and writes None with a fresh
\* timestamp into the challenge slot, so that a later call within
\* challenge_ttl_minutes returns None without a request.
C8_FailureIsCached ==
    (/\ last.op = "fetch_challenge_stats_enhanced"
     /\ "requests.get rss" \in last.calls
     /\ last.ret = NoneStr) =>
        /\ cache.challenge_data = NoneStr
        /\ cache.challenge_timestamp # NoTime
        /\ \A t \in cache.challenge_timestamp
                     ..(cache.challenge_timestamp + challenge_ttl_minutes - 1) :
              \A o \in {fetch_challenge_stats_enhanced(
                           cache, t, env.rss_configured, env.user_id_configured,
                           FeedPool[env.feed], ProfilePool[env.profile])} :
                 o.ret = NoneStr /\ o.calls = {}

\* The feeds that give no book: not fetched, empty, or with entries none of
\* which yields a book title.
NoBookFeeds ==
    {f \in DOMAIN FeedPool :
        \/ ~FeedPool[f].ok
        \/ \A i \in 1..Len(FeedPool[f].entries) :
              ClassifyEntry(FeedPool[f].entries[i]).book_title \in {NoneStr, <<>>}}

\* C9: with the feed URL configured and a feed that gives no book,
\* fetch_book_data returns, without raising, the fallback record (title "No
\* current book found", progress 0, challenge None, entries_count 0) and
\* stores it in the book slot, from which it is served for the 5 minutes
\* after it was written.
C9_FallbackStored ==
    (last.op = "serve_trmnl_data" /\ env.rss_configured /\ env.feed \in NoBookFeeds) =>
        /\ ~last.raised
        /\ last.ret.title = Chars("No current book found")
        /\ last.ret.progress = 0
        /\ last.ret.challenge = NoneStr
        /\ last.ret.entries_count = 0
        /\ last.payload.status = 200
        /\ cache.book_data = last.ret
        /\ cache.timestamp # NoTime
        /\ "find_all_book_entries" \in last.calls => cache.timestamp = last.written
        /\ \A t \in cache.timestamp..(cache.timestamp + ttl_minutes - 1) :
              fetch_book_data(cache, t, env.rss_configured, env.user_id_configured,
                              FeedPool[env.feed], FeedPool[env.feed],
                              ProfilePool[env.profile])
                  = {[raised |-> FALSE, ret |-> last.ret, cache |-> cache, calls |-> {}]}

\* C10: after clear_cache, from any cache, the four fields are None and
\* neither slot is valid, and the next book lookup and the next challenge
\* lookup compute their result anew.  Stated of a /clear-cache that returns
\* while no other request is in progress.
C10_ClearEmptiesBothSlots ==
    (last.op = "clear_cache" /\ requests = EmptyBag) =>
        /\ cache.book_data = NoneData
        /\ cache.timestamp = NoTime
        /\ cache.challenge_data = NoneStr
        /\ cache.challenge_timestamp = NoTime
        /\ ~is_cache_valid(cache, now)
        /\ ~is_challenge_cache_valid(cache, now)
        /\ env.rss_configured =>
              /\ \A o \in fetch_book_data(cache, now, env.rss_configured,
                                          env.user_id_configured, FeedPool[env.feed],
                                          FeedPool[env.feed], ProfilePool[env.profile]) :
                    "find_all_book_entries" \in o.calls
              /\ \A o \in {fetch_challenge_stats_enhanced(
                              cache, now, env.rss_configured, env.user_id_configured,
                              FeedPool[env.feed], ProfilePool[env.profile])} :
                    "requests.get rss" \in o.calls

\* C14: build_enhanced_book_data is pure given the groups: a request that
\* calls it, from fetch_book_data or from /debug, makes no network request in
\* it, and no step of the call changes the cache.
C14_BuildIsPure ==
    [][("build_enhanced_book_data" \in last'.calls) =>
          /\ "requests.get rss" \notin last'.calls
          /\ "requests.get profile" \notin last'.calls
          /\ "fetch_challenge_stats_enhanced" \notin last'.calls
          /\ (last'.op = "fetch_challenge_stats_enhanced" => cache' = cache)]_vars

\* The two slots of the cache c hold the same book value and timestamp, or
\* the same challenge value and timestamp, as those of d.
SameBookSlot(c, d) == c.book_data = d.book_data /\ c.timestamp = d.timestamp
SameChallengeSlot(c, d) ==
    c.challenge_data = d.challenge_data /\ c.challenge_timestamp = d.challenge_timestamp

\* The slots are consistent, and the two writers keep to their slot.
SlotsConsistent ==
    /\ (cache.book_data = NoneData) <=> (cache.timestamp = NoTime)
    /\ cache.challenge_data # NoneStr => cache.challenge_timestamp # NoTime
    /\ SameChallengeSlot(update_cache(cache, fallback_data, now), cache)
    /\ \A data \in {NoneStr, Chars("12 of 30 books")} :
          SameBookSlot(update_challenge_cache(cache, data, now), cache)

\* C16: in every state reached by requests to /trmnl-data, /debug,
\* /test-challenge and /clear-cache, book_data is None exactly when timestamp
\* is None and challenge_data is not None only when challenge_timestamp is
\* not None; update_cache leaves challenge_data and challenge_timestamp as
\* they are, update_challenge_cache leaves book_data and timestamp as they
\* are.  Stated of the states in which no request is in progress.
C16_SlotsConsistent == requests = EmptyBag => SlotsConsistent

(***************************************************************************)
(* Runs of one function on inputs drawn from bounded sets.  The server's   *)
(* variables stay as they are at start; arg is the input, result what the  *)
(* function returned.                                                      *)
(***************************************************************************)

Idle ==
    /\ cache = EmptyCache
    /\ now = 0
    /\ env = [rss_configured |-> TRUE, user_id_configured |-> TRUE, feed |-> 1, profile |-> 1]
    /\ requests = EmptyBag
    /\ last = NoRequest

\* normalize_book_title on the titles of at most MaxTitleLen characters over
\* TitleAlphabet, and on None.
MaxTitleLen == 4
TitleAlphabet == {"A", "b", ":", "-", "!", " "}
Titles == UNION {[1..n -> TitleAlphabet] : n \in 0..MaxTitleLen} \cup {NoneStr}

InitNormalize ==
    /\ Idle
    /\ arg \in {[fn |-> "normalize_book_title", title |-> t] : t \in Titles}
    /\ result = NoResult

RunNormalize ==
    /\ arg.fn = "normalize_book_title"
    /\ result = NoResult
    /\ result' = [fn |-> "normalize_book_title",
                  once |-> normalize_book_title(arg.title),
                  twice |-> normalize_book_title(normalize_book_title(arg.title))]
    /\ UNCHANGED <<cache, now, env, requests, last, arg>>

SpecNormalize == InitNormalize /\ [][RunNormalize]_vars

\* extract_progress_from_entry on entries that state a page (current of
\* total) in the title or in the description, or a percentage in the title,
\* and on the entries of ProgressExamples.
MaxCurrent == 30
SmallTotal == 7
HalfTotal == 50
PercentStep == 5
Totals == {0, SmallTotal, HalfTotal, 2 * HalfTotal}

ProgressExamples == <<
    Entry("Jane is on page 150 of 300 of 'Dune'", NoneStr, NoneStr, Jan07),
    Entry("Jane is on page 5 of 0 of 'Dune'", Chars("<p>45% done</p>"), NoneStr, Jan07),
    Entry("Jane started reading 'Dune'", NoneStr, NoneStr, Jan06),
    Entry("Jane is on page 400 of 300 of 'Dune'", NoneStr, NoneStr, Jan07) >>

ProgressArgs ==
    [fn : {"extract_progress_from_entry"}, form : {"page", "desc_page"},
     current : 0..MaxCurrent, total : Totals]
    \cup [fn : {"extract_progress_from_entry"}, form : {"percent"},
          current : {PercentStep * n : n \in 0..MaxCurrent}, total : {100}]
    \cup [fn : {"extract_progress_from_entry"}, form : {"example"},
          current : DOMAIN ProgressExamples, total : {0}]

\* The entry an input stands for.
ProgressEntry(a) ==
    CASE a.form = "page" ->
           [title |-> Chars("Jane is on page ") \o IntStr(a.current) \o Chars(" of ")
                      \o IntStr(a.total) \o Chars(" of 'Dune'"),
            description |-> NoneStr, author |-> NoneStr, published |-> Jan07]
      [] a.form = "desc_page" ->
           [title |-> Chars("Jane is currently reading 'Dune'"),
            description |-> Chars("<p>page ") \o IntStr(a.current) \o Chars(" of ")
                            \o IntStr(a.total) \o Chars("</p>"),
            author |-> NoneStr, published |-> Jan07]
      [] a.form = "percent" ->
           [title |-> Chars("Jane is ") \o IntStr(a.current) \o Chars("% done with 'Dune'"),
            description |-> NoneStr, author |-> NoneStr, published |-> Jan07]
      [] a.form = "example" -> ProgressExamples[a.current]

InitProgress ==
    /\ Idle
    /\ arg \in ProgressArgs
    /\ result = NoResult

RunProgress ==
    /\ arg.fn = "extract_progress_from_entry"
    /\ result = NoResult
    /\ result' = [fn |-> "extract_progress_from_entry",
                  ret |-> extract_progress_from_entry(ProgressEntry(arg))]
    /\ UNCHANGED <<cache, now, env, requests, last, arg>>

SpecProgress == InitProgress /\ [][RunProgress]_vars

\* fetch_challenge_stats_enhanced with an empty cache, on feeds of at most
\* MaxItems items whose descriptions are drawn from ChallengeDescs, with the
\* profile pages of ProfilePool, the feed request answered or not, and the
\* user id configured or not.
MaxItems == 2

ChallengeDescs == <<
    NoneStr,
    Chars("Jane has read 10 of 5 books"),
    Chars("Jane has read 12 of 600 books"),
    Chars("You have read 10 of 5 books. 4/20 books"),
    Chars("Jane has read 12 of 30 books.") >>

ChallengeArgs ==
    [fn : {"fetch_challenge_stats_enhanced"},
     items : UNION {[1..n -> DOMAIN ChallengeDescs] : n \in 0..MaxItems},
     rss_ok : BOOLEAN,
     profile : DOMAIN ProfilePool,
     user_id_configured : BOOLEAN]

\* The feed an input stands for, as requests.get answers it.
ChallengeFeed(a) ==
    IF ~a.rss_ok THEN [ok |-> FALSE]
    ELSE [ok |-> TRUE,
          entries |-> [i \in 1..Len(a.items) |->
                          Entry("Jane made progress", ChallengeDescs[a.items[i]],
                                NoneStr, Jan07)]]

InitChallenge ==
    /\ Idle
    /\ arg \in ChallengeArgs
    /\ result = NoResult

RunChallenge ==
    /\ arg.fn = "fetch_challenge_stats_enhanced"
    /\ result = NoResult
    /\ \E o \in {fetch_challenge_stats_enhanced(cache, now, TRUE, arg.user_id_configured,
                                                ChallengeFeed(arg),
                                                ProfilePool[arg.profile])} :
          result' = [fn |-> "fetch_challenge_stats_enhanced", ret |-> o.ret,
                     cache |-> o.cache, calls |-> o.calls]
    /\ UNCHANGED <<cache, now, env, requests, last, arg>>

SpecChallenge == InitChallenge /\ [][RunChallenge]_vars

\* build_enhanced_book_data, run twice on the groups find_all_book_entries
\* makes of a feed of at most MaxFeedLen entries drawn from FusionEntries;
\* the challenge requests fail.
MaxFeedLen == 3

PercentDune ==
    Entry("Jane is 30% done with Dune",
          Chars("<a href=\"/author/show/59\">Brian Herbert</a>"), NoneStr, NoneStr)
PageDuneThu == Entry("Jane is on page 30 of 300 of 'Dune'", NoneStr, NoneStr,
                     Chars("Thu, 09 Jan 2025 08:00:00 -0800"))
StartedEmma == Entry("Jane started reading 'Emma'", NoneStr, NoneStr,
                     Chars("Wed, 08 Jan 2025 08:00:00 -0800"))
StartedDuneWed == Entry("Jane started reading 'Dune'", NoneStr, NoneStr,
                        Chars("Wed, 08 Jan 2025 18:00:00 -0800"))

FusionEntries ==
    <<StartedDune, PageDune, PercentDune, PageDuneThu, StartedEmma, StartedDuneWed>>

FusionArgs ==
    [fn : {"build_enhanced_book_data"},
     feed : UNION {[1..n -> DOMAIN FusionEntries] : n \in 1..MaxFeedLen}]

\* The groups of the feed an input stands for.
FusionGroups(a) ==
    find_all_book_entries(TRUE, [ok |-> TRUE,
                                 entries |-> [i \in 1..Len(a.feed) |->
                                                 FusionEntries[a.feed[i]]]])

InitFusion ==
    /\ Idle
    /\ arg \in FusionArgs
    /\ result = NoResult

RunFusion ==
    /\ arg.fn = "build_enhanced_book_data"
    /\ result = NoResult
    /\ \E book_entries \in {FusionGroups(arg)} :
       \E runs \in {build_enhanced_book_data(book_entries, cache, now, TRUE, TRUE,
                                             [ok |-> FALSE], [ok |-> FALSE])} :
       \E first \in runs, second \in runs :
          result' = [fn |-> "build_enhanced_book_data", book_entries |-> book_entries,
                     group |-> MostRecent(book_entries, Len(book_entries)).book,
                     first |-> first, second |-> second]
    /\ UNCHANGED <<cache, now, env, requests, last, arg>>

SpecFusion == InitFusion /\ [][RunFusion]_vars

\* build_enhanced_book_data on the groups find_all_book_entries makes of a
\* feed of at most MaxSelectionLen entries drawn from SelectionEntries: three
\* books, each with an entry without a published date and an entry with one
\* (a Tuesday and a Thursday of January, a Monday of February).
MaxSelectionLen == 3

PercentEmma == Entry("Jane is 55% done with Emma", NoneStr, NoneStr, NoneStr)
PercentIvanhoe == Entry("Jane is 10% done with Ivanhoe", NoneStr, NoneStr, NoneStr)
PageEmmaThu == Entry("Jane is on page 10 of 100 of 'Emma'", NoneStr, NoneStr,
                     Chars("Thu, 09 Jan 2025 08:00:00 -0800"))
PageIvanhoeFeb == Entry("Jane is on page 5 of 50 of 'Ivanhoe'", NoneStr, NoneStr,
                        Chars("Mon, 03 Feb 2025 08:00:00 -0800"))

SelectionEntries ==
    <<PercentDune, PercentEmma, PercentIvanhoe, PageDune, PageEmmaThu, PageIvanhoeFeb>>

SelectionArgs ==
    [fn : {"most_recent_book"},
     feed : UNION {[1..n -> DOMAIN SelectionEntries] : n \in 1..MaxSelectionLen}]

SelectionGroups(a) ==
    find_all_book_entries(TRUE, [ok |-> TRUE,
                                 entries |-> [i \in 1..Len(a.feed) |->
                                                 SelectionEntries[a.feed[i]]]])

InitSelection ==
    /\ Idle
    /\ arg \in SelectionArgs
    /\ result = NoResult

RunSelection ==
    /\ arg.fn = "most_recent_book"
    /\ result = NoResult
    /\ \E book_entries \in {SelectionGroups(arg)} :
       \E run \in build_enhanced_book_data(book_entries, cache, now, TRUE, TRUE,
                                           [ok |-> FALSE], [ok |-> FALSE]) :
          result' = [fn |-> "most_recent_book", book_entries |-> book_entries,
                     group |-> MostRecent(book_entries, Len(book_entries)).book,
                     run |-> run]
    /\ UNCHANGED <<cache, now, env, requests, last, arg>>

SpecSelection == InitSelection /\ [][RunSelection]_vars

\* find_all_book_entries on a feed of one entry whose title is made of at
\* most MaxTitleParts parts of TitleParts: the trigger phrases in lower and
\* upper case, quoted and unquoted book titles, a quoted blank.
MaxTitleParts == 3

TitleParts ==
    <<"Jane ", "started reading ", "Started Reading ", "is on page 5 of 10 of ",
      "is currently reading ", "is 30% done with ", "currently reading ",
      "'Dune' ", "Dune ", "' ' ", "rated ">>

ClassifyArgs ==
    [fn : {"find_all_book_entries"},
     parts : UNION {[1..n -> DOMAIN TitleParts] : n \in 1..MaxTitleParts}]

RECURSIVE JoinParts(_, _)
JoinParts(parts, k) ==
    IF k = 0 THEN <<>> ELSE JoinParts(parts, k - 1) \o Chars(TitleParts[parts[k]])

\* The title an input stands for.
ClassifyTitle(a) == JoinParts(a.parts, Len(a.parts))

ClassifyFeed(a) ==
    [ok |-> TRUE,
     entries |-> << [title |-> ClassifyTitle(a), description |-> NoneStr,
                     author |-> NoneStr, published |-> Jan06] >>]

InitClassify ==
    /\ Idle
    /\ arg \in ClassifyArgs
    /\ result = NoResult

RunClassify ==
    /\ arg.fn = "find_all_book_entries"
    /\ result = NoResult
    /\ result' = [fn |-> "find_all_book_entries", title |-> ClassifyTitle(arg),
                  book_entries |-> find_all_book_entries(TRUE, ClassifyFeed(arg))]
    /\ UNCHANGED <<cache, now, env, requests, last, arg>>

SpecClassify == InitClassify /\ [][RunClassify]_vars

\* extract_author_robust on entries made of a title, a description and an
\* author field of the lists below: each tier is given a name it accepts, a
\* name of one character and a name of NameLimit characters.
NameLimit == 100

LongName == [i \in 1..NameLimit |-> "n"]

AuthorLink(name) == Chars("<a href=\"/author/show/9\">") \o name \o Chars("</a>")

AuthorDescriptions ==
    <<NoneStr, AuthorLink(Chars("Frank Herbert")), AuthorLink(Chars("X")),
      AuthorLink(LongName), AuthorLink(UnknownAuthor), Chars("<p>50% done</p>")>>

AuthorTitles ==
    <<Chars("Jane rated a book"),
      Chars("Jane is currently reading 'Dune' by Ursula Le Guin"),
      Chars("'a' by ") \o LongName,
      Chars("x by y")>>

AuthorFields ==
    <<NoneStr, Chars("Jane started reading Dune by Isaac Asimov"), Chars("Dune by F"),
      Chars("A by ") \o LongName, Chars("Jane")>>

AuthorArgs ==
    [fn : {"extract_author_robust"}, title : DOMAIN AuthorTitles,
     description : DOMAIN AuthorDescriptions, author : DOMAIN AuthorFields]

\* The entry an input stands for.
AuthorEntry(a) ==
    [title |-> AuthorTitles[a.title], description |-> AuthorDescriptions[a.description],
     author |-> AuthorFields[a.author], published |-> NoneStr]

InitAuthor ==
    /\ Idle
    /\ arg \in AuthorArgs
    /\ result = NoResult

\* The result keeps, with the name returned, what each strategy finds when
\* it is reached.
RunAuthor ==
    /\ arg.fn = "extract_author_robust"
    /\ result = NoResult
    /\ \E entry \in {AuthorEntry(arg)} :
          result' = [fn |-> "extract_author_robust",
                     ret |-> extract_author_robust(entry),
                     tiers |-> <<AuthorStrategy1(entry), AuthorStrategy2(entry),
                                 AuthorStrategy3(entry)>>]
    /\ UNCHANGED <<cache, now, env, requests, last, arg>>

SpecAuthor == InitAuthor /\ [][RunAuthor]_vars

(***************************************************************************)
(* Properties of extract_progress_from_entry and normalize_book_title      *)
(***************************************************************************)

\* What the percentage of an input is to be: a stated percentage cut at 100;
\* for a page, floor(current / total * 100) cut at 100 when total > 0 and 0
\* (no other pattern matches) when total = 0; for the examples 50 (page 150
\* of 300), 45 (total 0 in the title, "45% done" in the description), 0 (no
\* progress stated) and 100 (page 400 of 300).
ExampleProgress == <<50, 45, 0, 100>>

ExpectedProgress(a) ==
    CASE a.form \in {"page", "desc_page"} ->
           IF a.total > 0 THEN Min((100 * a.current) \div a.total, 100) ELSE 0
      [] a.form = "percent" -> Min(a.current, 100)
      [] a.form = "example" -> ExampleProgress[a.current]

\* C5: extract_progress_from_entry returns an integer of 0..100 for every
\* entry: min(n, 100) for a one-number pattern, the percentage cut at 100 for
\* a (current, total) pattern with total > 0, the next pattern's result when
\* total = 0, and 0 when nothing matches; page 150 of 300 gives 50.
C5_ProgressIsThePercentage ==
    result.fn = "extract_progress_from_entry" =>
        /\ result.ret \in 0..100
        /\ result.ret = ExpectedProgress(arg)

\* C6: normalize_book_title is idempotent: normalizing a normalized title
\* gives the same title, for every title (empty, None, starting with a colon
\* or a dash, with punctuation and repeated whitespace).
C6_NormalizeIdempotent ==
    result.fn = "normalize_book_title" => result.twice = result.once

\* A title with punctuation and repeated whitespace has been normalized twice,
\* and the normalized title is neither empty nor the title itself.
C6_Witness ==
    /\ result.fn = "normalize_book_title"
    /\ arg.title # NoneStr
    /\ \E i \in 1..(Len(arg.title) - 1) : arg.title[i] = " " /\ arg.title[i + 1] = " "
    /\ \E i \in 1..Len(arg.title) : arg.title[i] = "!"
    /\ result.once # <<>>
    /\ result.once # arg.title

(***************************************************************************)
(* Properties of find_all_book_entries                                     *)
(***************************************************************************)

\* The records collected from the feed, of all groups.
CollectedRecords ==
    UNION {{result.book_entries[g].entries[i] :
                i \in 1..Len(result.book_entries[g].entries)} :
           g \in 1..Len(result.book_entries)}

\* The title in lower case contains the phrase.
TitleHas(phrase) == Contains(Lower(result.title), Chars(phrase))

TriggerPhrases ==
    {"started reading", "is on page", "is currently reading", "updated her progress",
     "% done", "currently reading"}

\* C13: an entry whose title in lower case contains "started reading" is
\* recorded only with kind "started" and progress 0, whatever else the title
\* contains; an entry with no trigger phrase is not recorded; a recorded
\* entry has a book title that is not empty; no record has kind "unknown".
C13_StartedTakesPrecedence ==
    result.fn = "find_all_book_entries" =>
        /\ TitleHas("started reading") =>
              \A r \in CollectedRecords : r.type = "started" /\ r.progress = 0
        /\ (\A phrase \in TriggerPhrases : ~TitleHas(phrase)) => CollectedRecords = {}
        /\ \A r \in CollectedRecords :
              /\ r.type \in {"started", "progress_update", "currently_reading"}
              /\ r.original_title # NoneStr
              /\ Len(r.original_title) > 0

\* An entry "started reading is on page 5 of 10 of 'Dune'" has been recorded,
\* with kind "started" and progress 0.
C13_Witness ==
    /\ result.fn = "find_all_book_entries"
    /\ TitleHas("started reading")
    /\ TitleHas("is on page 5 of 10")
    /\ \E r \in CollectedRecords :
          r.type = "started" /\ r.progress = 0 /\ r.original_title = Chars("Dune")

(***************************************************************************)
(* Properties of extract_author_robust                                     *)
(***************************************************************************)

\* The tiers that yield a name.
YieldingTiers == {k \in 1..3 : result.tiers[k] # NoneStr}

\* C15, in part: extract_author_robust returns the name of the first tier
\* that yields one (the link of the description, then the title, then the
\* author field), and None when no tier yields a name.
FirstTierWins ==
    result.fn = "extract_author_robust" =>
        result.ret = IF YieldingTiers = {} THEN NoneStr
                     ELSE result.tiers[SetMin(YieldingTiers)]

\* C15: extract_author_robust returns the name of the first tier that yields
\* one, and every name it returns, from any tier, is longer than 1 character
\* and shorter than 100; otherwise it returns None.
C15_AuthorLengthBounds ==
    result.fn = "extract_author_robust" =>
        /\ result.ret = IF YieldingTiers = {} THEN NoneStr
                        ELSE result.tiers[SetMin(YieldingTiers)]
        /\ result.ret # NoneStr => (Len(result.ret) > 1 /\ Len(result.ret) < 100)

\* C15, in part: the names taken from the title and from the author field
\* are longer than 1 character and shorter than 100.
LaterTiersBounded ==
    result.fn = "extract_author_robust" =>
        \A k \in {2, 3} :
            result.tiers[k] # NoneStr =>
                (Len(result.tiers[k]) > 1 /\ Len(result.tiers[k]) < 100)

(***************************************************************************)
(* Properties of build_enhanced_book_data                                  *)
(***************************************************************************)

\* Two results of build_enhanced_book_data agree: both raise, or both return
\* None, or both return records with the same title, author, progress,
\* cover_url, start_date and update_date.
SameFusion(a, b) ==
    /\ a.raised = b.raised
    /\ (a.ret = NoneData) = (b.ret = NoneData)
    /\ (~a.raised /\ a.ret # NoneData) =>
          /\ a.ret.title = b.ret.title
          /\ a.ret.author = b.ret.author
          /\ a.ret.progress = b.ret.progress
          /\ a.ret.cover_url = b.ret.cover_url
          /\ a.ret.start_date = b.ret.start_date
          /\ a.ret.update_date = b.ret.update_date

\* C3: fusion is deterministic: on the same groups, two runs of
\* build_enhanced_book_data select the same group and return the same title,
\* author, progress, cover_url, start_date and update_date, also when the
\* group yields several author names of the same greatest length.
C3_FusionDeterministic ==
    result.fn = "build_enhanced_book_data" => SameFusion(result.first, result.second)

\* The records of the selected group, in the order the feed gave them.
Selected == result.book_entries[result.group].entries
SelectedProgress == {Selected[i].progress : i \in 1..Len(Selected)}
SelectedStarted == {i \in 1..Len(Selected) : Selected[i].type = "started"}

\* The progress and the update date the fusion is to give.
MaxProgressFused(r) ==
    /\ ~r.raised
    /\ r.ret # NoneData
    /\ r.ret.progress = SetMax(SelectedProgress)
    /\ \E i \in 1..Len(Selected) :
          /\ Selected[i].progress = SetMax(SelectedProgress)
          /\ r.ret.update_date = Selected[i].timestamp

\* The records among which the start date is taken: those of kind "started",
\* or all when there is none.
Anchors == IF SelectedStarted # {} THEN SelectedStarted ELSE 1..Len(Selected)

\* C4: for a selected group with a record of progress > 0, the fused
\* progress is the greatest progress of the group, update_date is the
\* timestamp of a record with that progress, and start_date is the timestamp
\* of the group's first record of kind "started", or of the group's first
\* record when there is none.
C4_StartDateOfFirstRecord ==
    (result.fn = "build_enhanced_book_data" /\ \E p \in SelectedProgress : p > 0) =>
        /\ MaxProgressFused(result.first)
        /\ result.first.ret.start_date = Selected[SetMin(Anchors)].timestamp

\* C4, in part: the fused progress is the greatest progress of the group and
\* update_date is the timestamp of a record with that progress.
ProgressAndUpdateDate ==
    (result.fn = "build_enhanced_book_data" /\ \E p \in SelectedProgress : p > 0) =>
        MaxProgressFused(result.first)

\* C4, in part: in a group with a record of kind "started", start_date is the
\* timestamp of the first of them.
StartDateOfFirstStarted ==
    (result.fn = "build_enhanced_book_data"
     /\ SelectedStarted # {}
     /\ \E p \in SelectedProgress : p > 0) =>
        /\ ~result.first.raised
        /\ result.first.ret.start_date = Selected[SetMin(SelectedStarted)].timestamp

\* What the fusion loop does, reading the sorted view (lines 396, 405, 412):
\* start_date is the timestamp of the record of kind "started" whose
\* timestamp is the greatest as a string (a missing timestamp counting as the
\* empty string), or of the record whose timestamp is the greatest as a
\* string when the group has no record of kind "started".
StartDateOfGreatestTimestamp ==
    (result.fn = "build_enhanced_book_data" /\ \E p \in SelectedProgress : p > 0) =>
        /\ MaxProgressFused(result.first)
        /\ \E i \in Anchors :
              /\ result.first.ret.start_date = Selected[i].timestamp
              /\ \A j \in Anchors :
                    ~StrGreater(SortKey(Selected[j]), SortKey(Selected[i]))

\* The group {started, 0, Jan 6} and {progress_update, 40, Jan 7} has been
\* fused to progress 40, start_date Jan 6, update_date Jan 7.
FusedExample ==
    /\ result.fn = "build_enhanced_book_data"
    /\ Len(Selected) = 2
    /\ SelectedStarted # {}
    /\ ~result.first.raised
    /\ result.first.ret.progress = 40
    /\ result.first.ret.start_date = Jan06
    /\ result.first.ret.update_date = Jan07

\* A group with two records of kind "started" of different timestamps has
\* been fused, and start_date is not the timestamp of the first of them.
LaterStartedTaken ==
    /\ result.fn = "build_enhanced_book_data"
    /\ \E i, j \in SelectedStarted : Selected[i].timestamp # Selected[j].timestamp
    /\ \E p \in SelectedProgress : p > 0
    /\ ~result.first.raised
    /\ result.first.ret.start_date # Selected[SetMin(SelectedStarted)].timestamp

\* The groups given to the selection, and the timestamps of group g.
Groups == result.book_entries
GroupStamps(g) ==
    {Groups[g].entries[i].timestamp : i \in 1..Len(Groups[g].entries)} \ {NoneStr}

\* C11: when no record of any group has a timestamp, the selection of
\* build_enhanced_book_data keeps the first group of the grouped mapping,
\* whatever the number of groups, and fuses it.
C11_FirstGroupWithoutTimestamps ==
    (result.fn = "most_recent_book"
     /\ \A g \in 1..Len(Groups) : GroupStamps(g) = {}) =>
        /\ result.group = 1
        /\ ~result.run.raised
        /\ result.run.ret # NoneData
        /\ result.run.ret.selected_progress_entry
              \in {Groups[1].entries[i].raw_rss_title : i \in 1..Len(Groups[1].entries)}

\* The months of a published date, "Tue, 07 Jan 2025 09:30:00 -0800".
MonthNames ==
    <<"Jan", "Feb", "Mar", "Apr", "May", "Jun", "Jul", "Aug", "Sep", "Oct", "Nov", "Dec">>

MonthOf(ts) ==
    CHOOSE m \in DOMAIN MonthNames : Chars(MonthNames[m]) = SubSeq(ts, 9, 11)

\* The time a published date of the zone -0800 stands for, in minutes; the
\* order of these numbers is the order of the dates in time.
PublishedTime(ts) ==
    (((ParseInt(SubSeq(ts, 13, 16)) - 2000) * 12 + MonthOf(ts)) * 31
     + ParseInt(SubSeq(ts, 6, 7))) * 1440
    + ParseInt(SubSeq(ts, 18, 19)) * 60 + ParseInt(SubSeq(ts, 21, 22))

\* The time of the latest record of group g, which has a timestamped record.
LatestTime(g) == SetMax({PublishedTime(ts) : ts \in GroupStamps(g)})

\* C12: when a record has a timestamp, the selected group is one whose latest
\* record is the most recent in time among the latest records of the groups,
\* and it has a timestamped record, whatever the order of the groups.
C12_MostRecentInTime ==
    (result.fn = "most_recent_book"
     /\ \E g \in 1..Len(Groups) : GroupStamps(g) # {}) =>
        /\ GroupStamps(result.group) # {}
        /\ \A g \in 1..Len(Groups) :
              GroupStamps(g) # {} => LatestTime(g) <= LatestTime(result.group)

\* C12, in part: a group without a timestamped record is never selected when
\* another group has one.
TimestampedGroupSelected ==
    (result.fn = "most_recent_book"
     /\ \E g \in 1..Len(Groups) : GroupStamps(g) # {}) =>
        GroupStamps(result.group) # {}

(***************************************************************************)
(* Properties of fetch_challenge_stats_enhanced                            *)
(***************************************************************************)

\* s reads "X of Y books" with 0 <= X <= Y <= 500.
PlausibleChallenge(s) ==
    LET parts == Split(s, Chars(" of "))
        words == Split(parts[2], Chars(" "))
    IN /\ Len(parts) = 2
       /\ IsNumber(parts[1])
       /\ Len(words) = 2
       /\ IsNumber(words[1])
       /\ words[2] = Chars("books")
       /\ ParseInt(parts[1]) <= ParseInt(words[1])
       /\ ParseInt(words[1]) <= 500

\* The plausible pair each description of ChallengeDescs and each page of
\* ProfilePool states, None when it states none: 10 of 5 and 12 of 600 are
\* not plausible; "You have read 10 of 5 books. 4/20 books" states 4 of 20.
PairOfDesc ==
    <<NoneStr, NoneStr, NoneStr, Chars("4 of 20 books"), Chars("12 of 30 books")>>
PairOfProfile == <<NoneStr, Chars("14 of 30 books"), NoneStr>>

\* The first plausible pair in the order feed items, then profile page.
ExpectedChallenge(a) ==
    LET hits == {i \in 1..Len(a.items) : PairOfDesc[a.items[i]] # NoneStr}
    IN IF a.rss_ok /\ hits # {} THEN PairOfDesc[a.items[SetMin(hits)]]
       ELSE IF a.user_id_configured THEN PairOfProfile[a.profile]
       ELSE NoneStr

\* C7: what fetch_challenge_stats_enhanced returns or writes into the
\* challenge slot is None or reads "X of Y books" with 0 <= X <= Y <= 500; a
\* match outside that range is dropped and the search goes on with the next
\* pattern, the next feed item and then the profile page.
C7_PlausibleChallengeOnly ==
    result.fn = "fetch_challenge_stats_enhanced" =>
        /\ result.ret # NoneStr => PlausibleChallenge(result.ret)
        /\ result.cache.challenge_data # NoneStr =>
              PlausibleChallenge(result.cache.challenge_data)
        /\ result.ret = ExpectedChallenge(arg)

\* Both feed items matched outside the range (10 of 5, 12 of 600) and the
\* search went on to the profile page, which gave 14 of 30.
C7_Witness ==
    /\ result.fn = "fetch_challenge_stats_enhanced"
    /\ arg.rss_ok
    /\ arg.items = <<2, 3>>
    /\ result.ret = Chars("14 of 30 books")
    /\ result.cache.challenge_data = Chars("14 of 30 books")

====
